---------------------------- MODULE Spec2Model ----------------------------
(***************************************************************************)
(* Model of vfio_usb_passthrough: the HTTP handlers that aggregate device  *)
(* state and attach/detach USB devices to running VMs                      *)
(* (internals/handlers/usb.go), the libvirt descriptor codec               *)
(* (internals/utils) and the favorites store (internals/db).               *)
(*                                                                         *)
(* Go strings are modelled as sequences of one-character strings, so that  *)
(* trimming, prefix stripping, lower-casing and the regular expressions    *)
(* are computed the way the code computes them.  A Go slice is a record    *)
(* [nil, elems]: a nil slice and an empty non-nil slice are different      *)
(* values (encoding/json writes the first as null, the second as []).      *)
(***************************************************************************)
EXTENDS Integers, Sequences, FiniteSets, TLC

(***************************************************************************)
(* Strings                                                                 *)
(***************************************************************************)
Digits == {"0", "1", "2", "3", "4", "5", "6", "7", "8", "9"}

UpperLetters == <<"A", "B", "C", "D", "E", "F", "G", "H", "I", "J", "K", "L", "M",
                  "N", "O", "P", "Q", "R", "S", "T", "U", "V", "W", "X", "Y", "Z">>

LowerLetters == <<"a", "b", "c", "d", "e", "f", "g", "h", "i", "j", "k", "l", "m",
                  "n", "o", "p", "q", "r", "s", "t", "u", "v", "w", "x", "y", "z">>

LetterSet == {UpperLetters[i] : i \in 1..26} \cup {LowerLetters[i] : i \in 1..26}

\* vertical tab (U+000B), next line (U+0085) and no-break space (U+00A0)
VerticalTab == ""
NextLine == ""
NoBreakSpace == " "

\* unicode.IsSpace on the Latin-1 characters
Whitespace == {" ", "\t", "\n", "\r", "\f", VerticalTab, NextLine, NoBreakSpace}

\* strings.ToLower on one character
ToLowerChar(ch) ==
    IF \E i \in 1..26 : UpperLetters[i] = ch
    THEN LowerLetters[CHOOSE i \in 1..26 : UpperLetters[i] = ch]
    ELSE ch

\* strings.ToLower
ToLower(s) == [i \in 1..Len(s) |-> ToLowerChar(s[i])]

\* strings.TrimSpace: drop leading and trailing white space
TrimSpace(s) ==
    LET nonSpace == {i \in 1..Len(s) : s[i] \notin Whitespace}
    IN  IF nonSpace = {} THEN <<>>
        ELSE LET lo == CHOOSE i \in nonSpace : \A j \in nonSpace : i <= j
                 hi == CHOOSE i \in nonSpace : \A j \in nonSpace : i >= j
             IN  SubSeq(s, lo, hi)

\* strings.HasPrefix
HasPrefix(s, p) == Len(s) >= Len(p) /\ SubSeq(s, 1, Len(p)) = p

\* strings.TrimPrefix: drop ONE leading occurrence of p, if there is one
TrimPrefix(s, p) == IF HasPrefix(s, p) THEN SubSeq(s, Len(p) + 1, Len(s)) ELSE s

HexPrefix == <<"0", "x">>

\* the character class [0-9a-f]
HexLowerChars == Digits \cup {"a", "b", "c", "d", "e", "f"}

\* regexp `^[0-9a-f]{4}$`
MatchHex4(s) == Len(s) = 4 /\ \A i \in 1..4 : s[i] \in HexLowerChars

(***************************************************************************)
(* Descriptor codec (internals/utils)                                      *)
(***************************************************************************)
\* mutant: any number of hex digits
isValidHexID_AnyLength(id) ==
    LET t == TrimPrefix(ToLower(TrimSpace(id)), HexPrefix)
    IN  t # <<>> /\ \A i \in 1..Len(t) : t[i] \in HexLowerChars

isValidHexID(id) ==
    MatchHex4(TrimPrefix(ToLower(TrimSpace(id)), HexPrefix))

\* mutant: white space is kept
normalizeHexID_NoTrim(id) == HexPrefix \o TrimPrefix(ToLower(id), HexPrefix)

normalizeHexID(id) ==
    HexPrefix \o TrimPrefix(ToLower(TrimSpace(id)), HexPrefix)

\* A hostdev element: mode and type attributes, source/vendor@id and
\* source/product@id.
Hostdev(mode, type, vendor, product) ==
    [mode |-> mode, type |-> type, vendor |-> vendor, product |-> product]

NoHostdev == Hostdev("", "", <<>>, <<>>)

\* GenerateUSBXML returns (xml, error)
GenerateUSBXML(vendorID, productID) ==
    IF ~isValidHexID(vendorID) \/ ~isValidHexID(productID)
    THEN [err |-> "invalid vendor or product ID format", xml |-> NoHostdev]
    ELSE [err |-> "",
          xml |-> Hostdev("subsystem", "usb",
                          normalizeHexID(vendorID), normalizeHexID(productID))]

\* A Go slice
NilSlice == [nil |-> TRUE, elems |-> <<>>]

EmptySlice == [nil |-> FALSE, elems |-> <<>>]

\* append(slice, x)
AppendSlice(sl, x) == [nil |-> FALSE, elems |-> Append(sl.elems, x)]

USBDevice(v, p) == [vendorId |-> v, productId |-> p]

\* the loop body of ParseVMXML for one hostdev entry
ParseHostdev(devices, hostdev) ==
    IF hostdev.mode = "subsystem" /\ hostdev.type = "usb"
    THEN IF hostdev.vendor = <<>> \/ hostdev.product = <<>>
         THEN devices
         ELSE LET vendorID  == ToLower(TrimPrefix(hostdev.vendor, HexPrefix))
                  productID == ToLower(TrimPrefix(hostdev.product, HexPrefix))
              IN  IF ~isValidHexID(vendorID) \/ ~isValidHexID(productID)
                  THEN devices
                  ELSE AppendSlice(devices, USBDevice(vendorID, productID))
    ELSE devices

RECURSIVE ParseHostdevs(_, _)
ParseHostdevs(devices, hostdevs) ==
    IF hostdevs = <<>> THEN devices
    ELSE ParseHostdevs(ParseHostdev(devices, Head(hostdevs)), Tail(hostdevs))

\* ParseVMXML returns (devices, error).  A document is
\* [wellformed, hostdevs]: xml.Unmarshal fails on a document that is not
\* well-formed XML with a <domain> root.
ParseVMXML(vmXML) ==
    IF ~vmXML.wellformed
    THEN [err |-> "failed to parse VM XML", devices |-> NilSlice]
    ELSE [err |-> "", devices |-> ParseHostdevs(NilSlice, vmXML.hostdevs)]


(***************************************************************************)
(* VM name validation (internals/handlers/usb.go)                          *)
(***************************************************************************)
ErrVMNameEmpty == "VM name is required"

ErrVMNameInvalidFormat ==
    "VM name contains invalid characters (only alphanumeric, dash, underscore allowed, max 64 chars)"

ErrVMNotRunning == "VM is not running or does not exist"

MaxVMNameLen == 64

\* vmNamePattern: regexp `^[a-zA-Z0-9_-]+$`
vmNamePattern(s) ==
    Len(s) >= 1 /\ \A i \in 1..Len(s) : s[i] \in LetterSet \cup Digits \cup {"_", "-"}

\* mutant: the length limit is not checked
isValidVMNameFormat_NoLength(vmName) ==
    IF vmName = <<>> THEN FALSE ELSE vmNamePattern(vmName)

isValidVMNameFormat(vmName) ==
    IF vmName = <<>> \/ Len(vmName) > MaxVMNameLen
    THEN FALSE
    ELSE vmNamePattern(vmName)

\* The scanner loop of getRunningVMNames: one name per non-blank line.
RECURSIVE ScanVMNames(_, _)
ScanVMNames(vms, lines) ==
    IF lines = <<>> THEN vms
    ELSE LET vmName == TrimSpace(Head(lines))
         IN  ScanVMNames(IF vmName # <<>> THEN Append(vms, vmName) ELSE vms,
                         Tail(lines))

\* getRunningVMNames returns (vms, error); out is what
\* `virsh list --name --state-running` did: [err, lines].
getRunningVMNames(out) ==
    IF out.err
    THEN [err |-> TRUE, vms |-> <<>>]
    ELSE [err |-> FALSE, vms |-> ScanVMNames(<<>>, out.lines)]

\* mutant: a listing that failed counts as naming the VM
isVMRunning_ErrorMeansRunning(vmName, out) ==
    LET r == getRunningVMNames(out)
    IN  IF r.err THEN TRUE
        ELSE \E i \in 1..Len(r.vms) : r.vms[i] = vmName

isVMRunning(vmName, out) ==
    LET r == getRunningVMNames(out)
    IN  IF r.err THEN FALSE
        ELSE \E i \in 1..Len(r.vms) : r.vms[i] = vmName

\* mutant: the running check is skipped
validateVMName_NoRunningCheck(vmName, out) ==
    IF vmName = <<>> THEN ErrVMNameEmpty
    ELSE IF ~isValidVMNameFormat(vmName) THEN ErrVMNameInvalidFormat
    ELSE ""

\* validateVMName returns an error ("" is nil).  out is consulted only when
\* the name is well-formed: only then is the listing command run.
validateVMName(vmName, out) ==
    IF vmName = <<>> THEN ErrVMNameEmpty
    ELSE IF ~isValidVMNameFormat(vmName) THEN ErrVMNameInvalidFormat
    ELSE IF ~isVMRunning(vmName, out) THEN ErrVMNotRunning
    ELSE ""

(***************************************************************************)
(* Bounds and inputs                                                       *)
(***************************************************************************)
\* attach/detach calls that may be in flight together
NumCalls == 2

\* names os.CreateTemp can draw for "vfio-usb-*.xml"
NumTempNames == 2

\* how many "0x" prefixes a request may stack in front of an identifier
MaxPrefixes == 2

Calls == 1..NumCalls

TempNames == 1..NumTempNames

Rep(s, n) == [i \in 1..(n * Len(s)) |-> s[((i - 1) % Len(s)) + 1]]

VM1 == <<"v", "m", "1">>

VM2 == <<"W", "-", "2", "_", "b">>

\* the VMs the hypervisor knows; any subset may be running
VMUniverse == {VM1, VM2}

VMNameInputs ==
    {<<>>, VM1, VM2, <<"v", "m", ";">>, <<"v", "m", " ", "1">>,
     Rep(<<"a">>, MaxVMNameLen), Rep(<<"a">>, MaxVMNameLen + 1)}

IDCores ==
    {<<"0", "4", "6", "d">>, <<"0", "4", "6", "D">>, <<"1", "2">>, <<>>,
     <<"x", "y", "z", "1">>, <<"1", "2", "3", "4", "5">>}

IDPrefixes == {Rep(HexPrefix, k) : k \in 0..MaxPrefixes} \cup {<<"0", "X">>}

PlainIDs == {pre \o core : pre \in IDPrefixes, core \in IDCores}

\* vendorId values of a request body
VendorInputs ==
    PlainIDs
    \cup {<<" ">> \o core \o <<"\t">> : core \in IDCores}
    \cup {HexPrefix \o <<" ">> \o core : core \in IDCores}

\* productId values of a request body
ProductInputs ==
    {<<"c", "5", "4", "8">>, <<"0", "x", "C", "5", "4", "8">>, <<"1", "2">>, <<>>}

\* a request body: BodyParser fails, or yields the two fields
BodyInputs ==
    {[parseOk |-> FALSE, VendorID |-> <<>>, ProductID |-> <<>>]}
    \cup {[parseOk |-> TRUE, VendorID |-> v, ProductID |-> p] :
            v \in VendorInputs, p \in ProductInputs}

NoBody == [parseOk |-> TRUE, VendorID |-> <<>>, ProductID |-> <<>>]

RECURSIVE SetToSeq(_)
SetToSeq(S) ==
    IF S = {} THEN <<>>
    ELSE LET x == CHOOSE y \in S : TRUE IN <<x>> \o SetToSeq(S \ {x})

\* what `virsh list --name --state-running` can do while the VMs of `running`
\* run: fail, or print one name per line and an empty last line
VirshListOutcomes(running) ==
    {[err |-> TRUE, lines |-> <<>>],
     [err |-> FALSE, lines |-> SetToSeq(running) \o << <<>> >>]}

NoListing == [err |-> FALSE, lines |-> <<>>]

NoOutput == [err |-> FALSE, output |-> ""]

\* what `virsh attach-device|detach-device <vm> <file> --live` can do: exit 0,
\* or exit non-zero; either way with its combined output
VirshDeviceOutcomes(vmRunning) ==
    {[err |-> TRUE, output |-> "error: Requested operation is not valid\n"],
     [err |-> TRUE, output |-> "Device attached successfully\n"],
     [err |-> TRUE, output |-> ""]}
    \cup (IF vmRunning
          THEN {[err |-> FALSE, output |-> "Device attached successfully\n"]}
          ELSE {})

\* VM configuration dumps `virsh dumpxml` may print
\* hostdev entries in a VM dump given to ParseVMXML
MaxHostdevs == 2

DumpDocs ==
    {[wellformed |-> FALSE, hostdevs |-> <<>>],
     [wellformed |-> TRUE, hostdevs |-> <<>>],
     [wellformed |-> TRUE,
      hostdevs |-> <<Hostdev("subsystem", "usb",
                             <<"0", "x", "0", "4", "6", "d">>,
                             <<"0", "x", "c", "5", "4", "8">>)>>],
     [wellformed |-> TRUE,
      hostdevs |-> <<Hostdev("subsystem", "pci", <<>>, <<>>),
                     Hostdev("subsystem", "usb",
                             <<"0", "x", "1", "D", "6", "B">>,
                             <<"0", "x", "0", "0", "0", "2">>),
                     Hostdev("subsystem", "usb", <<"0", "x", "1", "2">>, <<>>)>>]}

\* what `virsh dumpxml <vm>` can do
VirshDumpOutcomes ==
    {[err |-> TRUE, doc |-> [wellformed |-> FALSE, hostdevs |-> <<>>]]}
    \cup {[err |-> FALSE, doc |-> d] : d \in DumpDocs}

(***************************************************************************)
(* State                                                                   *)
(***************************************************************************)
VARIABLES
    runningVMs,   \* the hypervisor: the VMs running now
    tmpDir,       \* os.TempDir(): descriptor file name -> content
    call,         \* per attach/detach/list call: position, locals, response
    agg,          \* the GetDevicesState call: position, locals, sub-tasks, response
    favoritesDB,  \* the favorites table and its AUTOINCREMENT sequence
    server,       \* the process: start-up, access policy, the request in the filter chain
    codec         \* a call of the descriptor codec: arguments and results

vars == <<runningVMs, tmpDir, call, agg, favoritesDB, server, codec>>

\* an external process a call started
Proc(cmd, vm, file, content, vmRunning) ==
    [cmd |-> cmd, vm |-> vm, file |-> file, content |-> content,
     vmRunning |-> vmRunning]

\* a JSON response of the attach/detach/list handlers
Response(status, error, details, success, message, devices) ==
    [status |-> status, error |-> error, details |-> details,
     success |-> success, message |-> message, devices |-> devices]

NoResponse == Response(0, "", "", FALSE, <<>>, NilSlice)

ErrorResponse(status, error, details) ==
    Response(status, error, details, FALSE, <<>>, NilSlice)

IdleCall ==
    [pc |-> "idle", op |-> "", vmName |-> <<>>, req |-> NoBody,
     vendorID |-> <<>>, productID |-> <<>>, xml |-> NoHostdev, tmpFile |-> 0,
     resp |-> NoResponse,
     bodyRead |-> FALSE,  \* history: the handler got as far as BodyParser
     spawned |-> <<>>,    \* history: the external processes this call started
     listing |-> NoListing, \* history: what the running-VM listing returned
     created |-> {},      \* history: the temporary files this call created
     cmdOut |-> NoOutput] \* history: what the attach/detach command returned

(***************************************************************************)
(* Temporary descriptor files                                              *)
(***************************************************************************)
\* os.Remove
RemoveFile(dir, name) == [n \in DOMAIN dir \ {name} |-> dir[n]]

WriteFile(dir, name, content) ==
    [n \in DOMAIN dir \cup {name} |-> IF n = name THEN content ELSE dir[n]]

\* mutant: a failed Close leaves the file behind
createTempXMLFile_LeakOnClose(dir, name, content, fault) ==
    IF fault = "create"
    THEN [err |-> "create", filePath |-> 0, dir |-> dir]
    ELSE IF fault = "write"
    THEN [err |-> "write", filePath |-> 0,
          dir |-> RemoveFile(WriteFile(dir, name, NoHostdev), name)]
    ELSE IF fault = "close"
    THEN [err |-> "close", filePath |-> 0, dir |-> WriteFile(dir, name, content)]
    ELSE [err |-> "", filePath |-> name, dir |-> WriteFile(dir, name, content)]

\* createTempXMLFile returns (filePath, error) and changes the directory.
\* name is the fresh name os.CreateTemp drew; fault is the system call that
\* fails, if any.
createTempXMLFile(dir, name, content, fault) ==
    IF fault = "create"
    THEN [err |-> "create", filePath |-> 0, dir |-> dir]
    ELSE IF fault = "write"
    THEN [err |-> "write", filePath |-> 0,
          dir |-> RemoveFile(WriteFile(dir, name, NoHostdev), name)]
    ELSE IF fault = "close"
    THEN [err |-> "close", filePath |-> 0,
          dir |-> RemoveFile(WriteFile(dir, name, content), name)]
    ELSE [err |-> "", filePath |-> name, dir |-> WriteFile(dir, name, content)]

removeTempFile(dir, filePath) == RemoveFile(dir, filePath)

\* mutant: every call writes its descriptor to one fixed path
FreshTempNames_Shared(dir) == {1}

\* os.CreateTemp("", "vfio-usb-*.xml") opens with O_EXCL: the name it
\* returns is the name of no existing file
FreshTempNames(dir) == TempNames \ DOMAIN dir

TempFaults == {"", "create", "write", "close"}

(***************************************************************************)
(* Attach / detach / list handlers                                         *)
(***************************************************************************)

\* A request arrives: POST /api/vms/:vmName/attach, .../detach, or
\* GET /api/vms/:vmName/devices.
BeginCall(c, o, vm) ==
    /\ call[c].pc = "idle"
    /\ call' = [call EXCEPT ![c] = [IdleCall EXCEPT !.pc = "validate", !.op = o,
                                       !.vmName = vm]]
    /\ UNCHANGED <<runningVMs, tmpDir, agg, favoritesDB, server, codec>>

\* the process validateVMName starts, if it gets as far as isVMRunning
ListingProcs(vmName) ==
    IF vmName # <<>> /\ isValidVMNameFormat(vmName)
    THEN <<Proc("list", <<>>, 0, NoHostdev, FALSE)>>
    ELSE <<>>

\* HTTP status of a failed VM validation
VMValidationStatus == 400

\* the handler's decision on the VM name, given what the listing returned
\* (out) and the processes the validation started (procs)
DecideVM(c, out, procs) ==
    LET err == validateVMName(call[c].vmName, out)
        seen == [call EXCEPT ![c].spawned = @ \o procs, ![c].listing = out]
    IN  call' = IF err # ""
                THEN [seen EXCEPT ![c].pc = "done",
                         ![c].resp = ErrorResponse(VMValidationStatus, err, "")]
                ELSE [seen EXCEPT ![c].pc =
                         IF call[c].op = "list" THEN "dump" ELSE "parse"]

\* mutant: a call reuses the listing another call in progress obtained
ValidateVM_Remembered(c) ==
    /\ call[c].pc = "validate"
    /\ IF \E d \in Calls \ {c} : call[d].spawned # <<>>
       THEN \E d \in Calls \ {c} :
                /\ call[d].spawned # <<>>
                /\ DecideVM(c, call[d].listing, <<>>)
       ELSE \E out \in (IF ListingProcs(call[c].vmName) # <<>>
                        THEN VirshListOutcomes(runningVMs) ELSE {NoListing}) :
                DecideVM(c, out, ListingProcs(call[c].vmName))
    /\ UNCHANGED <<runningVMs, tmpDir, agg, favoritesDB, server, codec>>

\* "Validate VM name" of AttachDevice, DetachDevice and GetAttachedDevices
ValidateVM(c) ==
    /\ call[c].pc = "validate"
    /\ \E out \in (IF ListingProcs(call[c].vmName) # <<>>
                   THEN VirshListOutcomes(runningVMs) ELSE {NoListing}) :
         DecideVM(c, out, ListingProcs(call[c].vmName))
    /\ UNCHANGED <<runningVMs, tmpDir, agg, favoritesDB, server, codec>>

\* the normalisation AttachDevice and DetachDevice apply to a request field
NormalizeRequestID(id) == TrimPrefix(ToLower(TrimSpace(id)), HexPrefix)

\* HTTP status of a GenerateUSBXML failure
GenerateErrorStatus == 500

\* Body parsing (body is the request's body), the empty check,
\* normalisation and GenerateUSBXML
EncodeDescriptor(c, body) ==
    /\ call[c].pc = "parse"
    /\ LET req == body
           read == [call EXCEPT ![c].req = body, ![c].bodyRead = TRUE]
           Finish(r) == [read EXCEPT ![c].pc = "done", ![c].resp = r]
           vendorID == NormalizeRequestID(req.VendorID)
           productID == NormalizeRequestID(req.ProductID)
           gen == GenerateUSBXML(vendorID, productID)
       IN  call' =
             IF ~req.parseOk
             THEN Finish(ErrorResponse(400, "Invalid request body", "parse error"))
             ELSE IF req.VendorID = <<>> \/ req.ProductID = <<>>
             THEN Finish(ErrorResponse(400, "vendorId and productId are required", ""))
             ELSE IF gen.err # ""
             THEN [Finish(ErrorResponse(GenerateErrorStatus,
                                        "Failed to generate device XML", gen.err))
                     EXCEPT ![c].vendorID = vendorID, ![c].productID = productID]
             ELSE [read EXCEPT ![c].pc = "persist", ![c].vendorID = vendorID,
                               ![c].productID = productID, ![c].xml = gen.xml]
    /\ UNCHANGED <<runningVMs, tmpDir, agg, favoritesDB, server, codec>>

\* mutant: the handler goes on to the command without writing the file
PersistDescriptor_SkipWrite(c) ==
    /\ call[c].pc = "persist"
    /\ call' = [call EXCEPT ![c].pc = "invoke", ![c].tmpFile = 1]
    /\ UNCHANGED <<runningVMs, tmpDir, agg, favoritesDB, server, codec>>

\* createTempXMLFile and `defer removeTempFile(tmpFile)`
PersistDescriptor(c) ==
    /\ call[c].pc = "persist"
    /\ \E fault \in TempFaults :
         \/ /\ fault = "create"
            /\ call' = [call EXCEPT ![c].pc = "done",
                          ![c].resp = ErrorResponse(500,
                              "Failed to create temporary XML file", fault)]
            /\ UNCHANGED tmpDir
         \/ /\ fault # "create"
            /\ \E name \in FreshTempNames(tmpDir) :
                 LET r == createTempXMLFile(tmpDir, name, call[c].xml, fault)
                     made == [call EXCEPT ![c].created = @ \cup {name}]
                 IN  /\ tmpDir' = r.dir
                     /\ call' =
                          IF r.err # ""
                          THEN [made EXCEPT ![c].pc = "done",
                                   ![c].resp = ErrorResponse(500,
                                       "Failed to create temporary XML file", r.err)]
                          ELSE [made EXCEPT ![c].pc = "invoke",
                                            ![c].tmpFile = r.filePath]
    /\ UNCHANGED <<runningVMs, agg, favoritesDB, server, codec>>

\* exec.Command("virsh", "attach-device"|"detach-device", vmName, tmpFile,
\* "--live") is started; the process reads the descriptor file.
InvokeVirsh(c) ==
    /\ call[c].pc = "invoke"
    /\ call' = [call EXCEPT ![c].pc = "wait",
                  ![c].spawned = Append(@,
                      Proc(call[c].op, call[c].vmName, call[c].tmpFile,
                           IF call[c].tmpFile \in DOMAIN tmpDir
                           THEN tmpDir[call[c].tmpFile] ELSE NoHostdev,
                           call[c].vmName \in runningVMs))]
    /\ UNCHANGED <<runningVMs, tmpDir, agg, favoritesDB, server, codec>>

\* fmt.Sprintf("Failed to attach device to %s", vmName) and its detach twin
OperationFailedError(o) ==
    IF o = "attach" THEN "Failed to attach device to VM"
    ELSE "Failed to detach device from VM"

\* mutant: the command's output is replaced by a fixed text
DeviceResponse_OutputDropped(c, out) ==
    IF out.err
    THEN ErrorResponse(500, OperationFailedError(call[c].op), "command failed")
    ELSE Response(200, "", "", TRUE,
                  <<call[c].op, call[c].vendorID, call[c].productID, call[c].vmName>>,
                  NilSlice)

\* the response AttachDevice/DetachDevice build from CombinedOutput's result
DeviceResponse(c, out) ==
    IF out.err
    THEN ErrorResponse(500, OperationFailedError(call[c].op), out.output)
    ELSE Response(200, "", "", TRUE,
                  <<call[c].op, call[c].vendorID, call[c].productID, call[c].vmName>>,
                  NilSlice)

\* CombinedOutput returns; the handler responds and the deferred
\* removeTempFile runs.
CompleteVirsh(c) ==
    /\ call[c].pc = "wait"
    /\ \E out \in VirshDeviceOutcomes(call[c].spawned[Len(call[c].spawned)].vmRunning) :
         call' = [call EXCEPT ![c].pc = "done", ![c].resp = DeviceResponse(c, out),
                              ![c].cmdOut = out]
    /\ tmpDir' = removeTempFile(tmpDir, call[c].tmpFile)
    /\ UNCHANGED <<runningVMs, agg, favoritesDB, server, codec>>

RECURSIVE ToAttachedResponses(_, _)
ToAttachedResponses(devices, parsed) ==
    IF parsed = <<>> THEN devices
    ELSE ToAttachedResponses(AppendSlice(devices, Head(parsed)), Tail(parsed))

\* getAttachedDevicesList returns (devices, error); out is what
\* `virsh dumpxml <vm>` did.
getAttachedDevicesList(out) ==
    IF out.err
    THEN [err |-> "virsh dumpxml: exit status 1", devices |-> NilSlice]
    ELSE LET parsed == ParseVMXML(out.doc)
         IN  IF parsed.err # ""
             THEN [err |-> parsed.err, devices |-> NilSlice]
             ELSE [err |-> "",
                   devices |-> ToAttachedResponses(NilSlice, parsed.devices.elems)]

\* GetAttachedDevices after validation
DumpAttached(c) ==
    /\ call[c].pc = "dump"
    /\ \E out \in VirshDumpOutcomes :
         LET r == getAttachedDevicesList(out)
             ran == [call EXCEPT ![c].spawned = Append(@,
                        Proc("dumpxml", call[c].vmName, 0, NoHostdev,
                             call[c].vmName \in runningVMs))]
         IN  call' = [ran EXCEPT ![c].pc = "done",
                        ![c].resp =
                           IF r.err # ""
                           THEN ErrorResponse(500, "Failed to get attached devices", r.err)
                           ELSE Response(200, "", "", FALSE, <<>>, r.devices)]
    /\ UNCHANGED <<runningVMs, tmpDir, agg, favoritesDB, server, codec>>

\* the response has been written; the call's locals are gone
Return(c) ==
    /\ call[c].pc = "done"
    /\ call' = [call EXCEPT ![c] = IdleCall]
    /\ UNCHANGED <<runningVMs, tmpDir, agg, favoritesDB, server, codec>>

(***************************************************************************)
(* The hypervisor                                                          *)
(***************************************************************************)
VMStart(vm) ==
    /\ vm \notin runningVMs
    /\ runningVMs' = runningVMs \cup {vm}
    /\ UNCHANGED <<tmpDir, call, agg, favoritesDB, server, codec>>

VMStop(vm) ==
    /\ vm \in runningVMs
    /\ runningVMs' = runningVMs \ {vm}
    /\ UNCHANGED <<tmpDir, call, agg, favoritesDB, server, codec>>

(***************************************************************************)
(* Favorites store (internals/db) and its handlers                         *)
(***************************************************************************)
\* ids the AUTOINCREMENT sequence may hand out before the model stops adding
MaxFavoriteId == 2

FavoriteRow(id, v, p, d, t) ==
    [id |-> id, vendor_id |-> v, product_id |-> p, description |-> d,
     created_at |-> t]

\* the table, its AUTOINCREMENT sequence, and (history) for each pair added and
\* not removed since, the request that added it last
EmptyDB == [rows |-> <<>>, seq |-> 0, given |-> {}]

SameKey(row, v, p) == row.vendor_id = v /\ row.product_id = p

\* the rows of a table that a predicate keeps, in storage order
RECURSIVE DeleteRows(_, _, _)
DeleteRows(rows, v, p) ==
    IF rows = <<>> THEN <<>>
    ELSE IF SameKey(Head(rows), v, p) THEN DeleteRows(Tail(rows), v, p)
    ELSE <<Head(rows)>> \o DeleteRows(Tail(rows), v, p)

\* mutant: a plain INSERT into a table without the UNIQUE constraint
dbAddFavorite_Insert(db, vendorID, productID, description, now) ==
    [db EXCEPT
       !.rows = Append(db.rows,
                       FavoriteRow(db.seq + 1, vendorID, productID, description, now)),
       !.seq = db.seq + 1]

\* db.AddFavorite: INSERT OR REPLACE under UNIQUE(vendor_id, product_id);
\* now is CURRENT_TIMESTAMP.
dbAddFavorite(db, vendorID, productID, description, now) ==
    [db EXCEPT
       !.rows = Append(DeleteRows(db.rows, vendorID, productID),
                       FavoriteRow(db.seq + 1, vendorID, productID, description, now)),
       !.seq = db.seq + 1]

\* db.RemoveFavorite: DELETE ... WHERE vendor_id = ? AND product_id = ?
dbRemoveFavorite(db, vendorID, productID) ==
    [db EXCEPT !.rows = DeleteRows(db.rows, vendorID, productID)]

LatestCreated(db) ==
    IF db.rows = <<>> THEN 0
    ELSE LET ts == {db.rows[i].created_at : i \in 1..Len(db.rows)}
         IN  CHOOSE t \in ts : \A u \in ts : u <= t

\* CURRENT_TIMESTAMP at an insert: the second of the latest row, or later
InsertTimes(db) == {LatestCreated(db), db.seq + 1}

\* the orders SELECT ... ORDER BY created_at DESC may deliver the rows in
QueryOrders(db) ==
    LET n == Len(db.rows)
        perms == {f \in [1..n -> 1..n] : \A i, j \in 1..n : i # j => f[i] # f[j]}
    IN  {[i \in 1..n |-> db.rows[f[i]]] : f \in
            {g \in perms : \A i, j \in 1..n :
                i < j => db.rows[g[i]].created_at >= db.rows[g[j]].created_at}}

\* what the SELECT of GetAllFavorites can do: fail (queryErr), deliver all
\* rows, or deliver some rows and then fail (rowsErr)
FavoritesQueryOutcomes(db) ==
    {[queryErr |-> TRUE, rows |-> <<>>, rowsErr |-> FALSE]}
    \cup {[queryErr |-> FALSE, rows |-> rs, rowsErr |-> FALSE] : rs \in QueryOrders(db)}
    \cup {[queryErr |-> FALSE, rows |-> SubSeq(rs, 1, k), rowsErr |-> TRUE] :
            rs \in QueryOrders(db), k \in 0..(Len(db.rows) - 1)}

FavoriteDevice(row) ==
    [ID |-> row.id, VendorID |-> row.vendor_id, ProductID |-> row.product_id,
     Description |-> row.description]

RECURSIVE ScanFavorites(_, _)
ScanFavorites(favorites, rows) ==
    IF rows = <<>> THEN favorites
    ELSE ScanFavorites(AppendSlice(favorites, FavoriteDevice(Head(rows))), Tail(rows))

\* db.GetAllFavorites returns (favorites, error)
GetAllFavorites(out) ==
    IF out.queryErr
    THEN [err |-> "query failed", favorites |-> NilSlice]
    ELSE [err |-> IF out.rowsErr THEN "rows failed" ELSE "",
          favorites |-> ScanFavorites(NilSlice, out.rows)]

\* favorites a request body may name
FavoriteInputs ==
    {[parseOk |-> TRUE, VendorID |-> <<"0", "4", "6", "d">>,
      ProductID |-> <<"c", "5", "4", "8">>, Description |-> "mouse"],
     [parseOk |-> TRUE, VendorID |-> <<"1", "d", "6", "b">>,
      ProductID |-> <<"0", "0", "0", "2">>, Description |-> "hub"],
     [parseOk |-> FALSE, VendorID |-> <<>>, ProductID |-> <<>>, Description |-> ""]}

\* favorites a request body may name: one pair under two descriptions and
\* in other spellings, another pair, bodies the handlers refuse
FavoriteRequestInputs ==
    {[parseOk |-> TRUE, VendorID |-> v, ProductID |-> <<"c", "5", "4", "8">>, Description |-> d] :
        v \in {<<"0", "4", "6", "d">>, <<"0", "4", "6", "D">>, <<"0", "x", "0", "4", "6", "d">>, <<" ", "0", "4", "6", "d">>},
        d \in {"A", "B"}}
    \cup {[parseOk |-> TRUE, VendorID |-> <<"1", "d", "6", "b">>, ProductID |-> <<"0", "0", "0", "2">>, Description |-> ""],
          [parseOk |-> TRUE, VendorID |-> <<"0", "4", "6", "d">>, ProductID |-> <<>>, Description |-> "A"],
          [parseOk |-> FALSE, VendorID |-> <<>>, ProductID |-> <<>>, Description |-> ""]}

\* history: what a request gave for its pair
Given(body) ==
    [VendorID |-> body.VendorID, ProductID |-> body.ProductID,
     Description |-> body.Description]

\* history: the requests remembered for pairs other than the body's
OtherPairs(given, body) ==
    {g \in given : g.VendorID # body.VendorID \/ g.ProductID # body.ProductID}

\* handlers.AddFavorite: POST /api/favorites.  dbOk: the statement succeeds.
\* the answer of handlers.AddFavorite: [status, error]
AddFavoriteResponse(body, dbOk) ==
    IF ~body.parseOk THEN [status |-> 400, error |-> "Invalid request body"]
    ELSE IF body.VendorID = <<>> \/ body.ProductID = <<>>
    THEN [status |-> 400, error |-> "vendorId and productId are required"]
    ELSE IF ~dbOk THEN [status |-> 500, error |-> "Failed to add favorite"]
    ELSE [status |-> 200, error |-> ""]

\* the table after handlers.AddFavorite
AddFavoriteStore(db, body, now, dbOk) ==
    IF AddFavoriteResponse(body, dbOk).status # 200
    THEN db
    ELSE [dbAddFavorite(db, body.VendorID, body.ProductID, body.Description, now)
            EXCEPT !.given = OtherPairs(@, body) \cup {Given(body)}]

AddFavorite(body, now, dbOk) ==
    /\ favoritesDB.seq < MaxFavoriteId
    /\ favoritesDB' = AddFavoriteStore(favoritesDB, body, now, dbOk)
    /\ UNCHANGED <<runningVMs, tmpDir, call, agg, server, codec>>

\* handlers.RemoveFavorite: DELETE /api/favorites
RemoveFavorite(body, dbOk) ==
    /\ favoritesDB' =
         IF ~body.parseOk \/ body.VendorID = <<>> \/ body.ProductID = <<>> \/ ~dbOk
         THEN favoritesDB
         ELSE [dbRemoveFavorite(favoritesDB, body.VendorID, body.ProductID)
                 EXCEPT !.given = OtherPairs(@, body)]
    /\ UNCHANGED <<runningVMs, tmpDir, call, agg, server, codec>>

(***************************************************************************)
(* State aggregator: GetDevicesState                                       *)
(***************************************************************************)
\* one line of lsusb output: whether linePattern matches it, and the three
\* submatches if it does
LsusbLine(matches, vendor, product, rest) ==
    [matches |-> matches, vendor |-> vendor, product |-> product, rest |-> rest]

\* what `lsusb` can do: [err, lines]
LsusbOutcomes ==
    {[err |-> TRUE, lines |-> <<>>],
     [err |-> FALSE, lines |-> <<>>],
     [err |-> FALSE,
      lines |-> <<LsusbLine(TRUE, <<"0", "4", "6", "D">>, <<"C", "5", "4", "8">>,
                            <<"L", "o", "g", "i", " ">>),
                  LsusbLine(FALSE, <<>>, <<>>, <<>>),
                  LsusbLine(TRUE, <<"1", "d", "6", "b">>, <<"0", "0", "0", "2">>,
                            <<"h", "u", "b">>)>>]}

USBDeviceResponse(v, p, d) == [VendorID |-> v, ProductID |-> p, Description |-> d]

RECURSIVE ScanLsusb(_, _)
ScanLsusb(devices, lines) ==
    IF lines = <<>> THEN devices
    ELSE LET line == Head(lines)
         IN  ScanLsusb(IF line.matches
                       THEN AppendSlice(devices,
                               USBDeviceResponse(ToLower(line.vendor),
                                                 ToLower(line.product),
                                                 TrimSpace(line.rest)))
                       ELSE devices,
                       Tail(lines))

\* getUSBDevicesList returns (devices, error)
getUSBDevicesList(out) ==
    IF out.err
    THEN [err |-> "lsusb: exit status 1", devices |-> NilSlice]
    ELSE [err |-> "", devices |-> ScanLsusb(NilSlice, out.lines)]

Sources == {"usb", "attached", "favorites"}

\* the JSON response of GetDevicesState
StateResponse(status, error, details, hasSnapshot, devices, attached, favorites) ==
    [status |-> status, error |-> error, details |-> details,
     hasSnapshot |-> hasSnapshot, devices |-> devices,
     attachedDevices |-> attached, favorites |-> favorites]

StateError(status, error, details) ==
    StateResponse(status, error, details, FALSE, NilSlice, NilSlice, NilSlice)

NoFetch == [err |-> "", value |-> NilSlice]

IdleAgg ==
    [pc |-> "idle", vmName |-> <<>>,
     usbDevices |-> NilSlice, usbErr |-> "",
     attachedDevices |-> NilSlice, attachedErr |-> "",
     favorites |-> NilSlice, favoritesErr |-> "",
     wg |-> 0,
     task |-> [t \in Sources |-> "none"],
     resp |-> StateError(0, "", ""),
     spawned |-> <<>>,      \* history: the external processes validation started
     listing |-> NoListing, \* history: what the running-VM listing returned
     fetched |-> [t \in Sources |-> NoFetch]] \* history: what each fetch returned

\* GET /api/devices-state?vmName=
BeginState(vm) ==
    /\ agg.pc = "idle"
    /\ agg' = [IdleAgg EXCEPT !.pc = "validate", !.vmName = vm]
    /\ UNCHANGED <<runningVMs, tmpDir, call, favoritesDB, server, codec>>

\* "Validate VM name if provided"
ValidateState ==
    /\ agg.pc = "validate"
    /\ \E out \in (IF ListingProcs(agg.vmName) # <<>>
                   THEN VirshListOutcomes(runningVMs) ELSE {NoListing}) :
         LET err == IF agg.vmName # <<>> THEN validateVMName(agg.vmName, out) ELSE ""
             seen == [agg EXCEPT !.spawned = @ \o ListingProcs(agg.vmName),
                                 !.listing = out]
         IN  agg' = IF err # ""
                    THEN [seen EXCEPT !.pc = "done",
                                      !.resp = StateError(VMValidationStatus, err, "")]
                    ELSE [seen EXCEPT !.pc = "launchUsb"]
    /\ UNCHANGED <<runningVMs, tmpDir, call, favoritesDB, server, codec>>

\* wg.Add(1); go func() {...}()
Launch(a, t) == [a EXCEPT !.wg = @ + 1, !.task[t] = "running"]

\* mutant: the attached-device fetch is launched whether or not a VM is named
LaunchesAttached_Always(a) == TRUE

\* "Get attached devices if VM is selected"
LaunchesAttached(a) == a.vmName # <<>>

LaunchUsb ==
    /\ agg.pc = "launchUsb"
    /\ agg' = [Launch(agg, "usb") EXCEPT !.pc = "launchAttached"]
    /\ UNCHANGED <<runningVMs, tmpDir, call, favoritesDB, server, codec>>

LaunchAttached ==
    /\ agg.pc = "launchAttached"
    /\ agg' = [(IF LaunchesAttached(agg) THEN Launch(agg, "attached") ELSE agg)
                 EXCEPT !.pc = "launchFavorites"]
    /\ UNCHANGED <<runningVMs, tmpDir, call, favoritesDB, server, codec>>

LaunchFavorites ==
    /\ agg.pc = "launchFavorites"
    /\ agg' = [Launch(agg, "favorites") EXCEPT !.pc = "wait"]
    /\ UNCHANGED <<runningVMs, tmpDir, call, favoritesDB, server, codec>>

\* mutant: one error variable shared by the three goroutines
StoreResult_SharedErr(a, t, r) ==
    IF t = "usb" THEN [a EXCEPT !.usbDevices = r.value, !.usbErr = r.err]
    ELSE IF t = "attached" THEN [a EXCEPT !.attachedDevices = r.value, !.usbErr = r.err]
    ELSE [a EXCEPT !.favorites = r.value, !.usbErr = r.err]

\* the assignment each goroutine makes: its own value and error variables
StoreResult(a, t, r) ==
    IF t = "usb" THEN [a EXCEPT !.usbDevices = r.value, !.usbErr = r.err]
    ELSE IF t = "attached"
    THEN [a EXCEPT !.attachedDevices = r.value, !.attachedErr = r.err]
    ELSE [a EXCEPT !.favorites = r.value, !.favoritesErr = r.err]

\* a goroutine's body and its deferred wg.Done()
RunTask(t, r) ==
    /\ agg.task[t] = "running"
    /\ agg' = [StoreResult(agg, t, r) EXCEPT !.wg = @ - 1, !.task[t] = "done",
                                             !.fetched[t] = r]
    /\ UNCHANGED <<runningVMs, tmpDir, call, favoritesDB, server, codec>>

FetchUsb ==
    \E out \in LsusbOutcomes :
        LET r == getUSBDevicesList(out)
        IN  RunTask("usb", [err |-> r.err, value |-> r.devices])

FetchAttached ==
    \E out \in VirshDumpOutcomes :
        LET r == getAttachedDevicesList(out)
        IN  RunTask("attached", [err |-> r.err, value |-> r.devices])

FetchFavorites ==
    \E out \in FavoritesQueryOutcomes(favoritesDB) :
        LET r == GetAllFavorites(out)
        IN  RunTask("favorites", [err |-> r.err, value |-> r.favorites])

\* mutant: the handler returns as soon as the host-device fetch is in
WaitReturns_UsbOnly(a) == a.task["usb"] = "done"

\* wg.Wait() returns
WaitReturns(a) == a.wg = 0

FavoriteDeviceResponse(fav) ==
    [VendorID |-> fav.VendorID, ProductID |-> fav.ProductID,
     Description |-> fav.Description]

RECURSIVE ToFavoritesResponse(_, _)
ToFavoritesResponse(resp, favs) ==
    IF favs = <<>> THEN resp
    ELSE ToFavoritesResponse(AppendSlice(resp, FavoriteDeviceResponse(Head(favs))),
                             Tail(favs))

\* mutant: the nil checks before the response are missing
NonNil_Missing(sl) == sl

\* "Ensure we return empty arrays instead of null"
NonNil(sl) == IF sl.nil THEN EmptySlice ELSE sl

\* mutant: a failed secondary fetch keeps whatever it returned
Degrade_Keep(value, err) == value

\* a failed secondary fetch is replaced by an empty list
Degrade(value, err) == IF err # "" THEN EmptySlice ELSE value

\* mutant: a host-device failure is only logged
HostFailureStatus_Ignored(usbErr) == 200

\* the status GetDevicesState answers with after the join
HostFailureStatus(usbErr) == IF usbErr # "" THEN 500 ELSE 200

\* "Handle errors" to the end of GetDevicesState
ComposeResponse(a) ==
    IF HostFailureStatus(a.usbErr) # 200
    THEN StateError(HostFailureStatus(a.usbErr), "Failed to list USB devices", a.usbErr)
    ELSE LET attachedDevices == Degrade(a.attachedDevices, a.attachedErr)
             favorites == Degrade(a.favorites, a.favoritesErr)
             favoritesResponse == ToFavoritesResponse(NilSlice, favorites.elems)
         IN  StateResponse(200, "", "", TRUE, NonNil(a.usbDevices),
                           NonNil(attachedDevices), NonNil(favoritesResponse))

Compose ==
    /\ agg.pc = "wait"
    /\ WaitReturns(agg)
    /\ agg' = [agg EXCEPT !.pc = "done", !.resp = ComposeResponse(agg)]
    /\ UNCHANGED <<runningVMs, tmpDir, call, favoritesDB, server, codec>>

\* the response has been written and every goroutine of the call has ended
ReturnState ==
    /\ agg.pc = "done"
    /\ \A t \in Sources : agg.task[t] # "running"
    /\ agg' = IdleAgg
    /\ UNCHANGED <<runningVMs, tmpDir, call, favoritesDB, server, codec>>

(***************************************************************************)
(* Network text: addresses, masks and CIDR blocks (package net, as used by *)
(* internals/middleware/security.go).  Addresses are IPv4: four bytes;     *)
(* the address texts of this model hold at most one colon, so none of      *)
(* them is IPv6 text.                                                      *)
(***************************************************************************)
\* strings.Split(s, sep) for a one-character separator
RECURSIVE Split(_, _)
Split(s, sep) ==
    IF \E i \in 1..Len(s) : s[i] = sep
    THEN LET i == CHOOSE k \in 1..Len(s) :
                      s[k] = sep /\ \A j \in 1..(k - 1) : s[j] # sep
         IN  <<SubSeq(s, 1, i - 1)>> \o Split(SubSeq(s, i + 1, Len(s)), sep)
    ELSE <<s>>

\* strings.Join(elems, sep)
RECURSIVE Join(_, _)
Join(elems, sep) ==
    IF elems = <<>> THEN <<>>
    ELSE IF Len(elems) = 1 THEN elems[1]
    ELSE elems[1] \o sep \o Join(Tail(elems), sep)

DigitSeq == <<"0", "1", "2", "3", "4", "5", "6", "7", "8", "9">>

DigitValue(ch) == (CHOOSE i \in 1..10 : DigitSeq[i] = ch) - 1

AllDigits(s) == \A i \in 1..Len(s) : s[i] \in Digits

\* the number a string of decimal digits writes
RECURSIVE DecimalValue(_)
DecimalValue(s) ==
    IF s = <<>> THEN 0
    ELSE 10 * DecimalValue(SubSeq(s, 1, Len(s) - 1)) + DigitValue(s[Len(s)])

\* strconv.Itoa for n >= 0
RECURSIVE Itoa(_)
Itoa(n) ==
    IF n < 10 THEN <<DigitSeq[n + 1]>>
    ELSE Itoa(n \div 10) \o <<DigitSeq[(n % 10) + 1]>>

\* a nil net.IP, a nil net.IPMask
NoIP == <<>>

\* one field of a dotted-decimal address: 1 to 3 digits, no leading zero,
\* at most 255
IsOctetText(f) ==
    /\ Len(f) \in 1..3
    /\ AllDigits(f)
    /\ (Len(f) > 1 => f[1] # "0")
    /\ DecimalValue(f) <= 255

\* net.ParseIP on text that is not IPv6: the four bytes, or nil
ParseIP(s) ==
    LET fields == Split(s, ".")
    IN  IF Len(fields) = 4 /\ \A i \in 1..4 : IsOctetText(fields[i])
        THEN [i \in 1..4 |-> DecimalValue(fields[i])]
        ELSE NoIP

\* IP.String()
IPString(ip) ==
    IF ip = NoIP THEN <<"<", "n", "i", "l", ">">>
    ELSE Join([i \in 1..4 |-> Itoa(ip[i])], <<".">>)

RECURSIVE Pow2(_)
Pow2(n) == IF n = 0 THEN 1 ELSE 2 * Pow2(n - 1)

\* a & b on bytes
RECURSIVE ByteAnd(_, _, _)
ByteAnd(a, b, bits) ==
    IF bits = 0 THEN 0
    ELSE (a % 2) * (b % 2) + 2 * ByteAnd(a \div 2, b \div 2, bits - 1)

\* net.CIDRMask(ones, 32): nil when ones is outside 0..32
CIDRMask(ones) ==
    IF ones < 0 \/ ones > 32 THEN NoIP
    ELSE [i \in 1..4 |->
            LET k == IF ones >= 8 * i THEN 8
                     ELSE IF ones <= 8 * (i - 1) THEN 0
                     ELSE ones - 8 * (i - 1)
            IN  256 - Pow2(8 - k)]

\* IPMask.Size() of a four-byte mask: the number of leading ones, or 0 when
\* the mask is not ones followed by zeros
MaskSize(mask) ==
    IF \E k \in 0..32 : CIDRMask(k) = mask
    THEN CHOOSE k \in 0..32 : CIDRMask(k) = mask
    ELSE 0

\* IP.Mask(mask): nil when the lengths differ
MaskIP(ip, mask) ==
    IF Len(ip) # Len(mask) \/ ip = NoIP THEN NoIP
    ELSE [i \in 1..4 |-> ByteAnd(ip[i], mask[i], 8)]

\* a *net.IPNet
IPNet(ip, mask) == [IP |-> ip, Mask |-> mask]

\* IPNet.Contains(ip)
Contains(network, ip) ==
    /\ Len(ip) = Len(network.IP)
    /\ \A i \in 1..Len(ip) :
         ByteAnd(network.IP[i], network.Mask[i], 8) = ByteAnd(ip[i], network.Mask[i], 8)

\* IPNet.String() for a mask of leading ones
IPNetString(network) ==
    IPString(network.IP) \o <<"/">> \o Itoa(MaskSize(network.Mask))

\* dtoi of package net: the decimal number at the start of s, how many
\* characters it takes, and whether there is one below 0xFFFFFF
RECURSIVE DtoiFrom(_, _, _)
DtoiFrom(s, i, n) ==
    IF i > Len(s) \/ s[i] \notin Digits
    THEN [n |-> n, i |-> i - 1, ok |-> i > 1]
    ELSE LET m == n * 10 + DigitValue(s[i])
         IN  IF m >= 16777215 THEN [n |-> 16777215, i |-> i - 1, ok |-> FALSE]
             ELSE DtoiFrom(s, i + 1, m)

Dtoi(s) == DtoiFrom(s, 1, 0)

\* net.ParseCIDR: [err, network]
ParseCIDR(s) ==
    LET parts == Split(s, "/")
        addr == parts[1]
        mask == Join(Tail(parts), <<"/">>)
        ip == ParseIP(addr)
        d == Dtoi(mask)
        bad == [err |-> "invalid CIDR address", network |-> IPNet(NoIP, NoIP)]
    IN  IF Len(parts) < 2 \/ ip = NoIP THEN bad
        ELSE IF ~d.ok \/ d.i # Len(mask) \/ d.n > 32 THEN bad
        ELSE LET m == CIDRMask(d.n)
             IN  [err |-> "", network |-> IPNet(MaskIP(ip, m), m)]

\* mutant: an entry that is no CIDR is skipped
RECURSIVE ParseCIDREntries_SkipInvalid(_, _)
ParseCIDREntries_SkipInvalid(networks, cidrs) ==
    IF cidrs = <<>> THEN [err |-> "", networks |-> networks]
    ELSE LET cidr == TrimSpace(Head(cidrs))
             r == ParseCIDR(cidr)
         IN  IF cidr = <<>> \/ r.err # ""
             THEN ParseCIDREntries_SkipInvalid(networks, Tail(cidrs))
             ELSE ParseCIDREntries_SkipInvalid(Append(networks, r.network),
                                               Tail(cidrs))

ParseCIDRs_SkipInvalid(cidrList) ==
    ParseCIDREntries_SkipInvalid(<<>>, Split(cidrList, ","))

\* ParseCIDRs: [err, networks]; blank entries are skipped, the first entry
\* that is no CIDR fails the whole list
RECURSIVE ParseCIDREntries(_, _)
ParseCIDREntries(networks, cidrs) ==
    IF cidrs = <<>> THEN [err |-> "", networks |-> networks]
    ELSE LET cidr == TrimSpace(Head(cidrs))
             r == ParseCIDR(cidr)
         IN  IF cidr = <<>> THEN ParseCIDREntries(networks, Tail(cidrs))
             ELSE IF r.err # "" THEN [err |-> r.err, networks |-> <<>>]
             ELSE ParseCIDREntries(Append(networks, r.network), Tail(cidrs))

ParseCIDRs(cidrList) == ParseCIDREntries(<<>>, Split(cidrList, ","))

\* isIPAllowed
\* mutant: only the first network is looked at
isIPAllowed_FirstOnly(ip, allowedNetworks) ==
    allowedNetworks # <<>> /\ Contains(allowedNetworks[1], ip)

isIPAllowed(ip, allowedNetworks) ==
    \E i \in 1..Len(allowedNetworks) : Contains(allowedNetworks[i], ip)

IndexOf(s, ch) ==
    IF \E i \in 1..Len(s) : s[i] = ch
    THEN CHOOSE i \in 1..Len(s) : s[i] = ch /\ \A j \in 1..(i - 1) : s[j] # ch
    ELSE 0

LastIndexOf(s, ch) ==
    IF \E i \in 1..Len(s) : s[i] = ch
    THEN CHOOSE i \in 1..Len(s) : s[i] = ch /\ \A j \in (i + 1)..Len(s) : s[j] # ch
    ELSE 0

\* net.SplitHostPort: [err, host]
SplitHostPort(hostport) ==
    LET i == LastIndexOf(hostport, ":")
        end == IndexOf(hostport, "]")
        bracketed == hostport[1] = "["
        host == IF bracketed THEN SubSeq(hostport, 2, end - 1)
                ELSE SubSeq(hostport, 1, i - 1)
        afterOpen == IF bracketed THEN SubSeq(hostport, 2, Len(hostport)) ELSE hostport
        afterClose == IF bracketed THEN SubSeq(hostport, end + 1, Len(hostport))
                      ELSE hostport
        bad == [err |-> TRUE, host |-> <<>>]
    IN  IF i = 0 THEN bad
        ELSE IF bracketed /\ (end = 0 \/ end + 1 # i) THEN bad
        ELSE IF ~bracketed /\ IndexOf(host, ":") # 0 THEN bad
        ELSE IF IndexOf(afterOpen, "[") # 0 \/ IndexOf(afterClose, "]") # 0 THEN bad
        ELSE [err |-> FALSE, host |-> host]

\* extractIP
extractIP(remoteAddr) ==
    LET r == SplitHostPort(remoteAddr)
    IN  ParseIP(IF r.err THEN remoteAddr ELSE r.host)

(***************************************************************************)
(* Network Policy Resolver (internals/middleware/security.go)              *)
(***************************************************************************)
\* the scanner loop of getDefaultRouteInterfaces: lines are the lines of
\* /proc/net/route after the header, each split into fields
RECURSIVE ScanRoutes(_, _)
ScanRoutes(interfaces, lines) ==
    IF lines = <<>> THEN interfaces
    ELSE LET fields == Head(lines)
         IN  IF Len(fields) < 2 THEN ScanRoutes(interfaces, Tail(lines))
             ELSE IF fields[2] = "00000000"
                     /\ \A i \in 1..Len(interfaces) : interfaces[i] # fields[1]
             THEN ScanRoutes(Append(interfaces, fields[1]), Tail(lines))
             ELSE ScanRoutes(interfaces, Tail(lines))

\* getDefaultRouteInterfaces: file is [err, lines], the header line first
getDefaultRouteInterfaces(file) ==
    IF file.err THEN <<>>
    ELSE IF file.lines = <<>> THEN <<>>
    ELSE ScanRoutes(<<>>, Tail(file.lines))

\* the address loop of getInterfaceSubnet
RECURSIVE FirstIPv4Subnet(_)
FirstIPv4Subnet(addrs) ==
    IF addrs = <<>>
    THEN [err |-> "no IPv4 address found for interface", subnet |-> <<>>]
    ELSE LET addr == Head(addrs)
             mask == CIDRMask(addr.ones)
         IN  IF ~addr.isIPNet \/ addr.ip = NoIP THEN FirstIPv4Subnet(Tail(addrs))
             ELSE [err |-> "",
                   subnet |-> IPNetString(IPNet(MaskIP(addr.ip, mask), mask))]

\* getInterfaceSubnet: [err, subnet]; ifaces maps the names of the host's
\* interfaces to [err, addrs]
getInterfaceSubnet(ifaces, ifaceName) ==
    IF ifaceName \notin DOMAIN ifaces
    THEN [err |-> "no such network interface", subnet |-> <<>>]
    ELSE IF ifaces[ifaceName].err
    THEN [err |-> "route ip+net: address lookup failed", subnet |-> <<>>]
    ELSE FirstIPv4Subnet(ifaces[ifaceName].addrs)

\* netmaskToCIDR: [err, ones]
netmaskToCIDR(netmask) ==
    LET ip == ParseIP(netmask)
    IN  IF ip = NoIP THEN [err |-> "invalid netmask", ones |-> 0]
        ELSE [err |-> "", ones |-> MaskSize(ip)]

\* (*ss).SkipSpace of fmt for Sscanf: white space is skipped, but a newline
\* stops the scan with "unexpected newline" (a carriage return before it is
\* skipped first), which leaves the text at the newline
RECURSIVE SkipBlanks(_)
SkipBlanks(s) ==
    IF s # <<>> /\ Head(s) \in Whitespace \ {"\n"} THEN SkipBlanks(Tail(s)) ELSE s

\* the longest prefix of s made of characters of set
RECURSIVE TakeWhile(_, _)
TakeWhile(s, set) ==
    IF s # <<>> /\ Head(s) \in set THEN <<Head(s)>> \o TakeWhile(Tail(s), set)
    ELSE <<>>

\* a string of decimal digits without its leading zeros
RECURSIVE StripZeros(_)
StripZeros(d) ==
    IF Len(d) > 1 /\ Head(d) = "0" THEN StripZeros(Tail(d)) ELSE d

\* a <= b for strings of decimal digits of the same length
RECURSIVE DigitsLeq(_, _)
DigitsLeq(a, b) ==
    IF a = <<>> THEN TRUE
    ELSE IF Head(a) # Head(b) THEN DigitValue(Head(a)) < DigitValue(Head(b))
    ELSE DigitsLeq(Tail(a), Tail(b))

\* the digits of 2^63 - 1 and of 2^63, the largest magnitudes of an int64
MaxInt64Digits == <<"9", "2", "2", "3", "3", "7", "2", "0", "3", "6", "8", "5", "4", "7", "7", "5", "8", "0", "7">>

MinInt64Digits == <<"9", "2", "2", "3", "3", "7", "2", "0", "3", "6", "8", "5", "4", "7", "7", "5", "8", "0", "8">>

\* strconv.ParseInt(tok, 10, 64) does not fail with a range error: the
\* number the digits write, negated if neg, is an int64
FitsInt64(neg, tok) ==
    LET d == StripZeros(tok)
        limit == IF neg THEN MinInt64Digits ELSE MaxInt64Digits
    IN  Len(d) < Len(limit) \/ (Len(d) = Len(limit) /\ DigitsLeq(d, limit))

\* fmt.Sscanf(s, "%d", &n) with n = 0 before the call, n an int of 64 bits:
\* the value of n after it. A text that does not start with an integer, or
\* whose integer is outside the int64 range, leaves n at 0; what follows the
\* integer is ignored.
ScanInt(s) ==
    LET t == SkipBlanks(s)
        signed == t # <<>> /\ Head(t) \in {"+", "-"}
        body == IF signed THEN Tail(t) ELSE t
        tok == TakeWhile(body, Digits \cup {"_"})
    IN  IF tok = <<>> \/ ~AllDigits(tok) THEN 0
        ELSE IF ~FitsInt64(signed /\ Head(t) = "-", tok) THEN 0
        ELSE IF signed /\ Head(t) = "-" THEN 0 - DecimalValue(tok)
        ELSE DecimalValue(tok)

\* fmt.Sprintf("%d", n)
FormatInt(n) == IF n < 0 THEN <<"-">> \o Itoa(0 - n) ELSE Itoa(n)

\* mutant: the netmask is looked at before the prefix
RECURSIVE NetworkSubnets_NetmaskFirst(_, _)
NetworkSubnets_NetmaskFirst(subnets, ips) ==
    IF ips = <<>> THEN subnets
    ELSE LET ipConfig == Head(ips)
             ip == ParseIP(ipConfig.Address)
             nm == netmaskToCIDR(ipConfig.Netmask)
             cidrPrefix == IF ipConfig.Netmask # <<>> THEN nm.ones
                           ELSE IF ipConfig.Prefix # <<>> THEN ScanInt(ipConfig.Prefix)
                           ELSE 24
             networkIP == MaskIP(ip, CIDRMask(cidrPrefix))
             subnet == IPString(networkIP) \o <<"/">> \o FormatInt(cidrPrefix)
         IN  IF ipConfig.Address = <<>> \/ ip = NoIP
             THEN NetworkSubnets_NetmaskFirst(subnets, Tail(ips))
             ELSE IF ipConfig.Netmask # <<>> /\ nm.err # ""
             THEN NetworkSubnets_NetmaskFirst(subnets, Tail(ips))
             ELSE NetworkSubnets_NetmaskFirst(Append(subnets, subnet), Tail(ips))

\* the <ip> loop of getVirshNetworkSubnets for one network
RECURSIVE NetworkSubnets(_, _)
NetworkSubnets(subnets, ips) ==
    IF ips = <<>> THEN subnets
    ELSE LET ipConfig == Head(ips)
             ip == ParseIP(ipConfig.Address)
             nm == netmaskToCIDR(ipConfig.Netmask)
             cidrPrefix == IF ipConfig.Prefix # <<>> THEN ScanInt(ipConfig.Prefix)
                           ELSE IF ipConfig.Netmask # <<>> THEN nm.ones
                           ELSE 24
             networkIP == MaskIP(ip, CIDRMask(cidrPrefix))
             subnet == IPString(networkIP) \o <<"/">> \o FormatInt(cidrPrefix)
         IN  IF ipConfig.Address = <<>> \/ ip = NoIP
             THEN NetworkSubnets(subnets, Tail(ips))
             ELSE IF ipConfig.Prefix = <<>> /\ ipConfig.Netmask # <<>> /\ nm.err # ""
             THEN NetworkSubnets(subnets, Tail(ips))
             ELSE NetworkSubnets(Append(subnets, subnet), Tail(ips))

\* the network loop of getVirshNetworkSubnets: names are the lines
\* `virsh net-list --name` printed, netXML what `virsh net-dumpxml <name>`
\* does for each network
RECURSIVE ScanNetworks(_, _, _)
ScanNetworks(subnets, names, netXML) ==
    IF names = <<>> THEN subnets
    ELSE LET netName == TrimSpace(Head(names))
         IN  IF netName = <<>> THEN ScanNetworks(subnets, Tail(names), netXML)
             ELSE IF netName \notin DOMAIN netXML \/ netXML[netName].err
                     \/ ~netXML[netName].wellformed
             THEN ScanNetworks(subnets, Tail(names), netXML)
             ELSE ScanNetworks(NetworkSubnets(subnets, netXML[netName].ips),
                               Tail(names), netXML)

\* getVirshNetworkSubnets
getVirshNetworkSubnets(netList, netXML) ==
    IF netList.err THEN <<>> ELSE ScanNetworks(<<>>, netList.lines, netXML)

\* append the members of more that subnets does not hold yet
\* mutant: no seen set
AppendUnseen_KeepDuplicates(subnets, more) == subnets \o more

RECURSIVE AppendUnseen(_, _)
AppendUnseen(subnets, more) ==
    IF more = <<>> THEN subnets
    ELSE IF \E i \in 1..Len(subnets) : subnets[i] = Head(more)
    THEN AppendUnseen(subnets, Tail(more))
    ELSE AppendUnseen(Append(subnets, Head(more)), Tail(more))

\* the subnets of the default-route interfaces that have one
RECURSIVE InterfaceSubnets(_, _)
InterfaceSubnets(ifaces, names) ==
    IF names = <<>> THEN <<>>
    ELSE LET r == getInterfaceSubnet(ifaces, Head(names))
         IN  (IF r.err # "" THEN <<>> ELSE <<r.subnet>>)
             \o InterfaceSubnets(ifaces, Tail(names))

LoopbackCIDR == <<"1", "2", "7", ".", "0", ".", "0", ".", "0", "/", "8">>

\* getAutoDetectedSubnets on a host [route, ifaces, netList, netXML]
getAutoDetectedSubnets(host) ==
    LET defaultRouteIfaces == getDefaultRouteInterfaces(host.route)
        withIfaces == AppendUnseen(<<LoopbackCIDR>>,
                                   InterfaceSubnets(host.ifaces, defaultRouteIfaces))
    IN  AppendUnseen(withIfaces, getVirshNetworkSubnets(host.netList, host.netXML))

\* GetAllowedNetworks: allowedNetworks is the ALLOWED_NETWORKS variable
GetAllowedNetworks(allowedNetworks, host) ==
    IF allowedNetworks # <<>> THEN allowedNetworks
    ELSE Join(getAutoDetectedSubnets(host), <<",">>)

(***************************************************************************)
(* Inputs of the network policy and the access filter                      *)
(***************************************************************************)
\* client addresses as c.IP() may deliver them: text is the address text,
\* ip the address it writes (bare or before ":port"), NoIP when it writes none
ClientAddrInputs ==
    {[text |-> <<"1", "2", "7", ".", "0", ".", "0", ".", "1">>,
      ip |-> <<127, 0, 0, 1>>],
     [text |-> <<"1", "9", "2", ".", "1", "6", "8", ".", "1", ".", "5", "0">>,
      ip |-> <<192, 168, 1, 50>>],
     [text |-> <<"8", ".", "8", ".", "8", ".", "8">>,
      ip |-> <<8, 8, 8, 8>>],
     [text |-> <<"1", "9", "2", ".", "1", "6", "8", ".", "1", ".", "5", "0", ":", "8", "0", "8", "0">>,
      ip |-> <<192, 168, 1, 50>>],
     [text |-> <<"8", ".", "8", ".", "8", ".", "8", ":", "5", "3">>,
      ip |-> <<8, 8, 8, 8>>],
     [text |-> <<"1", "0", ".", "2", "0", "0", ".", "3", ".", "4", ":", "3", "0", "0", "0">>,
      ip |-> <<10, 200, 3, 4>>],
     [text |-> <<"n", "o", "t", "-", "a", "n", "-", "i", "p">>,
      ip |-> NoIP],
     [text |-> <<"1", "9", "2", ".", "1", "6", "8", ".", "1", ".", "2", "5", "6">>,
      ip |-> NoIP],
     [text |-> <<>>,
      ip |-> NoIP]}

\* ALLOWED_NETWORKS configurations: a list of entries, each a text with the
\* block it writes (valid, base, ones), joined by commas
AllowedNetworksInputs ==
    <<\* the allowed set of the specification's example
      [entries |-> <<[text |-> <<"1", "2", "7", ".", "0", ".", "0", ".", "0", "/", "8">>, valid |-> TRUE, base |-> <<127, 0, 0, 0>>, ones |-> 8],
                     [text |-> <<"1", "9", "2", ".", "1", "6", "8", ".", "1", ".", "0", "/", "2", "4">>, valid |-> TRUE, base |-> <<192, 168, 1, 0>>, ones |-> 24]>>,
       trailingComma |-> FALSE],
      \* an entry with host bits and blanks around it, and a trailing comma
      [entries |-> <<[text |-> <<" ", "1", "0", ".", "0", ".", "0", ".", "5", "/", "8", " ">>, valid |-> TRUE, base |-> <<10, 0, 0, 0>>, ones |-> 8],
                     [text |-> <<"1", "9", "2", ".", "1", "6", "8", ".", "1", ".", "0", "/", "2", "4">>, valid |-> TRUE, base |-> <<192, 168, 1, 0>>, ones |-> 24]>>,
       trailingComma |-> TRUE],
      \* the example in the other order
      [entries |-> <<[text |-> <<"1", "9", "2", ".", "1", "6", "8", ".", "1", ".", "0", "/", "2", "4">>, valid |-> TRUE, base |-> <<192, 168, 1, 0>>, ones |-> 24],
                     [text |-> <<"1", "2", "7", ".", "0", ".", "0", ".", "0", "/", "8">>, valid |-> TRUE, base |-> <<127, 0, 0, 0>>, ones |-> 8]>>,
       trailingComma |-> FALSE],
      \* a second entry that is no CIDR
      [entries |-> <<[text |-> <<"1", "2", "7", ".", "0", ".", "0", ".", "0", "/", "8">>, valid |-> TRUE, base |-> <<127, 0, 0, 0>>, ones |-> 8],
                     [text |-> <<"b", "o", "g", "u", "s">>, valid |-> FALSE, base |-> NoIP, ones |-> 0]>>,
       trailingComma |-> FALSE],
      \* a first entry with a prefix length out of range
      [entries |-> <<[text |-> <<"1", "9", "2", ".", "1", "6", "8", ".", "1", ".", "0", "/", "3", "3">>, valid |-> FALSE, base |-> NoIP, ones |-> 0],
                     [text |-> <<"1", "2", "7", ".", "0", ".", "0", ".", "0", "/", "8">>, valid |-> TRUE, base |-> <<127, 0, 0, 0>>, ones |-> 8]>>,
       trailingComma |-> FALSE],
      \* a single host
      [entries |-> <<[text |-> <<"1", "0", ".", "2", "0", "0", ".", "3", ".", "4", "/", "3", "2">>, valid |-> TRUE, base |-> <<10, 200, 3, 4>>, ones |-> 32]>>,
       trailingComma |-> FALSE],
      \* a lone comma: set, but no entry
      [entries |-> <<>>,
       trailingComma |-> TRUE],
      \* unset or empty
      [entries |-> <<>>,
       trailingComma |-> FALSE]>>

\* the text of ALLOWED_NETWORKS for a configuration
RECURSIVE EntryTexts(_)
EntryTexts(entries) ==
    IF entries = <<>> THEN <<>>
    ELSE <<Head(entries).text>> \o EntryTexts(Tail(entries))

ConfigText(cfg) ==
    Join(EntryTexts(cfg.entries), <<",">>)
        \o (IF cfg.trailingComma THEN <<",">> ELSE <<>>)

\* hosts the service may start on: the routing table, the interfaces, what
\* virsh net-list and net-dumpxml do, and the subnets the host's
\* default-route interfaces and active virtual networks have (ifaceSubnets,
\* netSubnets)
HostInputs ==
    <<\* no routing table to read, no libvirt
      [route |-> [err |-> TRUE, lines |-> <<>>],
       ifaces |-> <<>>,
       netList |-> [err |-> TRUE, lines |-> <<>>],
       netXML |-> <<>>,
       ifaceSubnets |-> {},
       netSubnets |-> {}],
      \* one default-route interface listed twice, one virtual network
      [route |-> [err |-> FALSE,
                  lines |-> << <<"Iface", "Destination", "Gateway">>,
                               <<"eth0", "00000000", "0101A8C0">>,
                               <<"eth0", "0001A8C0", "00000000">>,
                               <<"eth0", "00000000", "0101A8C0">> >>],
       ifaces |-> [n \in {"eth0"} |->
                     [err |-> FALSE,
                      addrs |-> <<[isIPNet |-> TRUE, ip |-> NoIP, ones |-> 64],
                                  [isIPNet |-> TRUE, ip |-> <<192, 168, 1, 50>>, ones |-> 24]>>]],
       netList |-> [err |-> FALSE, lines |-> <<<<"d", "e", "f", "a", "u", "l", "t">>, <<>>>>],
       netXML |-> [n \in {<<"d", "e", "f", "a", "u", "l", "t">>} |->
            [err |-> FALSE, wellformed |-> TRUE,
                ips |-> <<[Address |-> <<"1", "9", "2", ".", "1", "6", "8", ".", "1", "2", "2", ".", "1">>, Netmask |-> <<"2", "5", "5", ".", "2", "5", "5", ".", "2", "5", "5", ".", "0">>, Prefix |-> <<>>]>>]],
       ifaceSubnets |-> {<<"1", "9", "2", ".", "1", "6", "8", ".", "1", ".", "0", "/", "2", "4">>},
       netSubnets |-> {<<"1", "9", "2", ".", "1", "6", "8", ".", "1", "2", "2", ".", "0", "/", "2", "4">>}],
      \* a wired interface, a wireless one without IPv4 address, a route on
      \* an interface that is gone; a virtual network on the wired subnet,
      \* one without mask, one whose dump fails
      [route |-> [err |-> FALSE,
                  lines |-> << <<"Iface", "Destination", "Gateway">>,
                               <<"wlan0", "00000000", "0100000A">>,
                               <<"lo">>,
                               <<"eth0", "00000000", "0101A8C0">>,
                               <<"tun0", "00000000", "00000000">> >>],
       ifaces |-> [n \in {"eth0", "wlan0"} |->
                     IF n = "eth0"
                     THEN [err |-> FALSE,
                           addrs |-> <<[isIPNet |-> FALSE, ip |-> NoIP, ones |-> 0],
                                       [isIPNet |-> TRUE, ip |-> <<172, 16, 5, 9>>, ones |-> 20]>>]
                     ELSE [err |-> FALSE,
                           addrs |-> <<[isIPNet |-> TRUE, ip |-> NoIP, ones |-> 64]>>]],
       netList |-> [err |-> FALSE,
                    lines |-> <<<<" ", "l", "a", "b", " ">>, <<"i", "s", "o", "l", "a", "t", "e", "d">>, <<"b", "r", "o", "k", "e", "n">>, <<>>>>],
       netXML |-> [n \in {<<"l", "a", "b">>, <<"i", "s", "o", "l", "a", "t", "e", "d">>, <<"b", "r", "o", "k", "e", "n">>} |->
            IF n = <<"l", "a", "b">>
            THEN [err |-> FALSE, wellformed |-> TRUE,
                ips |-> <<[Address |-> <<"1", "7", "2", ".", "1", "6", ".", "0", ".", "1">>, Netmask |-> <<>>, Prefix |-> <<"2", "0">>],
                          [Address |-> <<>>, Netmask |-> <<"2", "5", "5", ".", "2", "5", "5", ".", "2", "5", "5", ".", "0">>, Prefix |-> <<>>]>>]
            ELSE IF n = <<"i", "s", "o", "l", "a", "t", "e", "d">>
            THEN [err |-> FALSE, wellformed |-> TRUE,
                ips |-> <<[Address |-> <<"1", "0", ".", "9", ".", "8", ".", "7">>, Netmask |-> <<>>, Prefix |-> <<>>],
                          [Address |-> <<"f", "d", "0", "0", ":", ":", "1">>, Netmask |-> <<>>, Prefix |-> <<"6", "4">>]>>]
            ELSE [err |-> TRUE, wellformed |-> FALSE,
                ips |-> <<>>]],
       ifaceSubnets |-> {<<"1", "7", "2", ".", "1", "6", ".", "0", ".", "0", "/", "2", "0">>},
       netSubnets |-> {<<"1", "7", "2", ".", "1", "6", ".", "0", ".", "0", "/", "2", "0">>, <<"1", "0", ".", "9", ".", "8", ".", "0", "/", "2", "4">>}],
      \* no default route; a virtual network that gives prefix and netmask, one
      \* with a /25 netmask, one whose prefix follows a blank and a carriage return
      [route |-> [err |-> FALSE,
                  lines |-> << <<"Iface", "Destination", "Gateway">> >>],
       ifaces |-> <<>>,
       netList |-> [err |-> FALSE, lines |-> <<<<"n", "a", "t", "1", "6">>, <<"w", "i", "d", "e">>, <<>>>>],
       netXML |-> [n \in {<<"n", "a", "t", "1", "6">>, <<"w", "i", "d", "e">>} |->
            IF n = <<"n", "a", "t", "1", "6">>
            THEN [err |-> FALSE, wellformed |-> TRUE,
                ips |-> <<[Address |-> <<"1", "0", ".", "7", "7", ".", "3", ".", "1">>, Netmask |-> <<"2", "5", "5", ".", "2", "5", "5", ".", "2", "5", "5", ".", "0">>, Prefix |-> <<"1", "6">>],
                          [Address |-> <<"1", "9", "2", ".", "1", "6", "8", ".", "1", "0", "0", ".", "1", "2", "9">>, Netmask |-> <<"2", "5", "5", ".", "2", "5", "5", ".", "2", "5", "5", ".", "1", "2", "8">>, Prefix |-> <<>>]>>]
            ELSE [err |-> FALSE, wellformed |-> TRUE,
                ips |-> <<[Address |-> <<"1", "0", ".", "1", ".", "2", ".", "3">>, Netmask |-> <<>>, Prefix |-> <<" ", "\r", "8">>]>>]],
       ifaceSubnets |-> {},
       netSubnets |-> {<<"1", "0", ".", "7", "7", ".", "0", ".", "0", "/", "1", "6">>, <<"1", "9", "2", ".", "1", "6", "8", ".", "1", "0", "0", ".", "1", "2", "8", "/", "2", "5">>, <<"1", "0", ".", "0", ".", "0", ".", "0", "/", "8">>}],
      \* a virtual network whose prefix attribute is out of range
      [route |-> [err |-> FALSE,
                  lines |-> << <<"Iface", "Destination", "Gateway">> >>],
       ifaces |-> <<>>,
       netList |-> [err |-> FALSE, lines |-> <<<<"l", "a", "b", "9", "9">>, <<>>>>],
       netXML |-> [n \in {<<"l", "a", "b", "9", "9">>} |->
            [err |-> FALSE, wellformed |-> TRUE,
                ips |-> <<[Address |-> <<"1", "0", ".", "5", ".", "0", ".", "1">>, Netmask |-> <<>>, Prefix |-> <<"9", "9">>]>>]],
       ifaceSubnets |-> {},
       netSubnets |-> {}],
      \* a virtual network whose netmask is not contiguous, one whose prefix
      \* attribute is no number, with an entry whose prefix is 2^63
      [route |-> [err |-> FALSE,
                  lines |-> << <<"Iface", "Destination", "Gateway">> >>],
       ifaces |-> <<>>,
       netList |-> [err |-> FALSE, lines |-> <<<<"o", "d", "d">>, <<"t", "y", "p", "o">>, <<>>>>],
       netXML |-> [n \in {<<"o", "d", "d">>, <<"t", "y", "p", "o">>} |->
            IF n = <<"o", "d", "d">>
            THEN [err |-> FALSE, wellformed |-> TRUE,
                ips |-> <<[Address |-> <<"1", "0", ".", "6", ".", "0", ".", "1">>, Netmask |-> <<"2", "5", "5", ".", "0", ".", "2", "5", "5", ".", "0">>, Prefix |-> <<>>]>>]
            ELSE [err |-> FALSE, wellformed |-> TRUE,
                ips |-> <<[Address |-> <<"1", "0", ".", "7", ".", "0", ".", "1">>, Netmask |-> <<"2", "5", "5", ".", "2", "5", "5", ".", "2", "5", "5", ".", "0">>, Prefix |-> <<"a", "b", "c">>],
                          [Address |-> <<"1", "0", ".", "8", ".", "0", ".", "1">>, Netmask |-> <<>>, Prefix |-> <<"9", "2", "2", "3", "3", "7", "2", "0", "3", "6", "8", "5", "4", "7", "7", "5", "8", "0", "8">>]>>]],
       ifaceSubnets |-> {},
       netSubnets |-> {}]>>

(***************************************************************************)
(* Start-up and the access filter (main.go, security.go)                   *)
(***************************************************************************)
\* NewIPFilterMiddleware: [err, allowedNetworks]
NewIPFilterMiddleware(allowedNetworks, host) ==
    LET r == ParseCIDRs(GetAllowedNetworks(allowedNetworks, host))
    IN  [err |-> r.err, allowedNetworks |-> r.networks]

\* the handler IPFilterMiddleware returns, applied to a client address:
\* it answers 403 or calls c.Next()
IPFilterMiddleware(clientIP, allowedNetworks) ==
    LET parsed == ParseIP(clientIP)
        ip == IF parsed = NoIP THEN extractIP(clientIP) ELSE parsed
    IN  IF ip = NoIP
        THEN [next |-> FALSE, status |-> 403,
              error |-> "Access denied: invalid client address"]
        ELSE IF ~isIPAllowed(ip, allowedNetworks)
        THEN [next |-> FALSE, status |-> 403,
              error |-> "Access denied: your IP is not in the allowed networks"]
        ELSE [next |-> TRUE, status |-> 0, error |-> ""]

\* route handlers main registers: the index page, the host enumerator, the
\* attach orchestrator, the state aggregator and the favorites store
Routes ==
    {"GetIndex", "ListUSBDevices", "AttachDevice", "GetDevicesState", "AddFavorite"}

\* the routes of the /api group
ApiRoutes == Routes \ {"GetIndex"}

\* mutant: the filter is registered after the routes
HandlerChain_FilterAfterRoutes(route) ==
    <<"logger">>
        \o (IF route \in ApiRoutes THEN <<"limiter">> ELSE <<>>)
        \o <<route, "ipFilter">>

\* the handlers fiber runs for a request to route, in the order main
\* registered them; each runs when the one before it calls c.Next()
HandlerChain(route) ==
    <<"logger", "ipFilter">>
        \o (IF route \in ApiRoutes THEN <<"limiter">> ELSE <<>>)
        \o <<route>>

NoRequest ==
    [pc |-> "idle", clientIP |-> [text |-> <<>>, ip |-> NoIP], route |-> "",
     pos |-> 0,
     ran |-> <<>>,      \* history: the handlers that ran for this request
     status |-> 0, error |-> ""]

\* the process before main has run
BootServer ==
    [phase |-> "boot",
     cfg |-> 0,         \* history: the ALLOWED_NETWORKS configuration found
     host |-> 0,        \* history: the host auto-detection looked at
     autoRan |-> FALSE, \* history: getAutoDetectedSubnets was called
     detected |-> <<>>, \* history: what getAutoDetectedSubnets returned
     allowed |-> <<>>,  \* the networks the filter was built with
     req |-> NoRequest]

\* main up to app.Use(ipFilter): the policy is resolved; a failure ends the
\* process (log.Fatalf); the bind address is taken as found
StartServer(c, h) ==
    /\ server.phase = "boot"
    /\ LET text == ConfigText(AllowedNetworksInputs[c])
           auto == text = <<>>
           r == NewIPFilterMiddleware(text, HostInputs[h])
       IN  server' = [server EXCEPT
                        !.phase = IF r.err # "" THEN "fatal" ELSE "serving",
                        !.cfg = c,
                        !.host = IF auto THEN h ELSE 0,
                        !.autoRan = auto,
                        !.detected = IF auto
                                     THEN getAutoDetectedSubnets(HostInputs[h])
                                     ELSE <<>>,
                        !.allowed = r.allowedNetworks]
    /\ UNCHANGED <<runningVMs, tmpDir, call, agg, favoritesDB, codec>>

\* a request arrives from address a for route r
Arrive(a, r) ==
    /\ server.phase = "serving"
    /\ server.req.pc = "idle"
    /\ server' = [server EXCEPT !.req =
                     [NoRequest EXCEPT !.pc = "run", !.clientIP = a, !.route = r,
                                       !.pos = 1]]
    /\ UNCHANGED <<runningVMs, tmpDir, call, agg, favoritesDB, codec>>

\* the handler the request is at
CurrentHandler ==
    IF server.req.pc = "run" /\ server.req.pos <= Len(HandlerChain(server.req.route))
    THEN HandlerChain(server.req.route)[server.req.pos]
    ELSE ""

\* the request after the current handler ran and called c.Next()
Passed(req) == [req EXCEPT !.ran = Append(@, CurrentHandler), !.pos = @ + 1]

\* the request after the current handler ran and answered
AnsweredWith(req, status, error) ==
    [req EXCEPT !.ran = Append(@, CurrentHandler), !.pc = "done",
                !.status = status, !.error = error]

\* logger.New()
RunLogger ==
    /\ CurrentHandler = "logger"
    /\ server' = [server EXCEPT !.req = Passed(server.req)]
    /\ UNCHANGED <<runningVMs, tmpDir, call, agg, favoritesDB, codec>>

\* the IP filter
RunIPFilter ==
    /\ CurrentHandler = "ipFilter"
    /\ LET r == IPFilterMiddleware(server.req.clientIP.text, server.allowed)
       IN  server' = [server EXCEPT !.req =
                         IF r.next THEN Passed(server.req)
                         ELSE AnsweredWith(server.req, r.status, r.error)]
    /\ UNCHANGED <<runningVMs, tmpDir, call, agg, favoritesDB, codec>>

\* the rate limiter of the /api group
RunLimiter(limitReached) ==
    /\ CurrentHandler = "limiter"
    /\ server' = [server EXCEPT !.req =
                     IF limitReached
                     THEN AnsweredWith(server.req, 429,
                                      "Rate limit exceeded. Please try again later.")
                     ELSE Passed(server.req)]
    /\ UNCHANGED <<runningVMs, tmpDir, call, agg, favoritesDB, codec>>

\* the request after the route's handler was entered
Entered(req) == [req EXCEPT !.ran = Append(@, CurrentHandler), !.pc = "handler"]

\* the request after the route's handler answered
HandlerAnswered(req, status, error) ==
    [req EXCEPT !.pc = "done", !.status = status, !.error = error]

\* GET /: handlers.GetIndex renders the index view; an error of Render is
\* answered 500 by fiber's default error handler
RunGetIndex(renderOk) ==
    /\ CurrentHandler = "GetIndex"
    /\ server' = [server EXCEPT !.req =
                     IF renderOk THEN AnsweredWith(server.req, 200, "")
                     ELSE AnsweredWith(server.req, 500, "")]
    /\ UNCHANGED <<runningVMs, tmpDir, call, agg, favoritesDB, codec>>

\* GET /api/usb-devices: handlers.ListUSBDevices; out is what lsusb did
RunListUSBDevices(out) ==
    /\ CurrentHandler = "ListUSBDevices"
    /\ server' = [server EXCEPT !.req =
                     IF getUSBDevicesList(out).err # ""
                     THEN AnsweredWith(server.req, 500, "Failed to list USB devices")
                     ELSE AnsweredWith(server.req, 200, "")]
    /\ UNCHANGED <<runningVMs, tmpDir, call, agg, favoritesDB, codec>>

\* POST /api/favorites: handlers.AddFavorite
RunAddFavorite(body, now, dbOk) ==
    /\ CurrentHandler = "AddFavorite"
    /\ favoritesDB.seq < MaxFavoriteId
    /\ favoritesDB' = AddFavoriteStore(favoritesDB, body, now, dbOk)
    /\ server' = [server EXCEPT !.req =
                     AnsweredWith(server.req, AddFavoriteResponse(body, dbOk).status,
                                  AddFavoriteResponse(body, dbOk).error)]
    /\ UNCHANGED <<runningVMs, tmpDir, call, agg, codec>>

\* POST /api/vms/:vmName/attach: handlers.AttachDevice is entered; its steps
\* are ValidateVM, EncodeDescriptor, PersistDescriptor, InvokeVirsh and
\* CompleteVirsh
RunAttachDevice(vm) ==
    /\ CurrentHandler = "AttachDevice"
    /\ call[1].pc = "idle"
    /\ call' = [call EXCEPT ![1] = [IdleCall EXCEPT !.pc = "validate",
                                       !.op = "attach", !.vmName = vm]]
    /\ server' = [server EXCEPT !.req = Entered(server.req)]
    /\ UNCHANGED <<runningVMs, tmpDir, agg, favoritesDB, codec>>

\* handlers.AttachDevice returns: its response is the request's answer
AnswerAttachDevice ==
    /\ server.req.pc = "handler"
    /\ server.req.route = "AttachDevice"
    /\ call[1].pc = "done"
    /\ server' = [server EXCEPT !.req =
                     HandlerAnswered(server.req, call[1].resp.status, call[1].resp.error)]
    /\ call' = [call EXCEPT ![1] = IdleCall]
    /\ UNCHANGED <<runningVMs, tmpDir, agg, favoritesDB, codec>>

\* GET /api/devices-state?vmName=...: handlers.GetDevicesState is entered;
\* its steps are ValidateState, the three launches and fetches, and Compose
RunGetDevicesState(vm) ==
    /\ CurrentHandler = "GetDevicesState"
    /\ agg.pc = "idle"
    /\ agg' = [IdleAgg EXCEPT !.pc = "validate", !.vmName = vm]
    /\ server' = [server EXCEPT !.req = Entered(server.req)]
    /\ UNCHANGED <<runningVMs, tmpDir, call, favoritesDB, codec>>

\* handlers.GetDevicesState returns: its response is the request's answer
AnswerGetDevicesState ==
    /\ server.req.pc = "handler"
    /\ server.req.route = "GetDevicesState"
    /\ agg.pc = "done"
    /\ \A t \in Sources : agg.task[t] # "running"
    /\ server' = [server EXCEPT !.req =
                     HandlerAnswered(server.req, agg.resp.status, agg.resp.error)]
    /\ agg' = IdleAgg
    /\ UNCHANGED <<runningVMs, tmpDir, call, favoritesDB, codec>>

\* the response has been sent
FinishRequest ==
    /\ server.req.pc = "done"
    /\ server' = [server EXCEPT !.req = NoRequest]
    /\ UNCHANGED <<runningVMs, tmpDir, call, agg, favoritesDB, codec>>

(***************************************************************************)
(* Calls of the descriptor codec (internals/utils)                         *)
(***************************************************************************)
\* vendor attribute values of a hostdev entry of a VM dump
DumpVendorInputs ==
    {<<"0", "x", "0", "4", "6", "d">>,
     <<"0", "x", "0", "4", "6", "D">>,
     <<"0", "4", "6", "d">>,
     <<"0", "X", "0", "4", "6", "D">>,
     <<" ", "0", "x", "0", "4", "6", "d">>,
     <<"0", "4", "6", "d", "\n">>,
     <<"0", "x", "0", "x", "0", "4", "6", "d">>,
     <<"0", "x", "1", "2">>,
     <<"x", "y", "z", "1">>,
     <<>>,
     <<"0", "x", "1", "d", "6", "b">>}

\* hostdev entries of a VM dump
HostdevInputs ==
    {Hostdev("subsystem", "usb", v, <<"0", "x", "c", "5", "4", "8">>) : v \in DumpVendorInputs}
    \cup {Hostdev("subsystem", "usb", <<"0", "x", "0", "4", "6", "d">>, <<>>),
          Hostdev("subsystem", "usb", <<"0", "x", "0", "4", "6", "d">>, <<"0", "x", "1", "2", "3", "4", "5">>),
          Hostdev("capabilities", "usb", <<"0", "x", "0", "4", "6", "d">>, <<"0", "x", "c", "5", "4", "8">>),
          Hostdev("subsystem", "pci", <<"0", "x", "0", "4", "6", "d">>, <<"0", "x", "c", "5", "4", "8">>),
          Hostdev("subsystem", "pci", <<>>, <<>>)}

\* VM dumps: one that is no XML, and those with up to MaxHostdevs entries
DumpInputs ==
    {[wellformed |-> FALSE, hostdevs |-> <<>>]}
    \cup {[wellformed |-> TRUE, hostdevs |-> h] :
            h \in UNION {[1..n -> HostdevInputs] : n \in 0..MaxHostdevs}}

NoCodecCall ==
    [op |-> "",
     vendorID |-> <<>>, productID |-> <<>>,         \* GenerateUSBXML's arguments
     generated |-> [err |-> "", xml |-> NoHostdev], \* what it returned
     vmXML |-> [wellformed |-> FALSE, hostdevs |-> <<>>], \* ParseVMXML's argument
     parsed |-> [err |-> "", devices |-> NilSlice]] \* what it returned

\* GenerateUSBXML(vendorID, productID) is called
CallGenerateUSBXML(vendorID, productID) ==
    /\ codec.op = ""
    /\ codec' = [NoCodecCall EXCEPT !.op = "GenerateUSBXML",
                                    !.vendorID = vendorID,
                                    !.productID = productID,
                                    !.generated = GenerateUSBXML(vendorID, productID)]
    /\ UNCHANGED <<runningVMs, tmpDir, call, agg, favoritesDB, server>>

\* the VM dump a domain has after the generated descriptor was attached to it
DumpOf(xml) == [wellformed |-> TRUE, hostdevs |-> <<xml>>]

\* ParseVMXML is called on a dump whose only hostdev is the descriptor just
\* generated
CallParseGenerated ==
    /\ codec.op = "GenerateUSBXML"
    /\ codec.generated.err = ""
    /\ codec' = [codec EXCEPT !.op = "ParseGenerated",
                              !.vmXML = DumpOf(codec.generated.xml),
                              !.parsed = ParseVMXML(DumpOf(codec.generated.xml))]
    /\ UNCHANGED <<runningVMs, tmpDir, call, agg, favoritesDB, server>>

\* ParseVMXML(vmXML) is called
CallParseVMXML(vmXML) ==
    /\ codec.op = ""
    /\ codec' = [NoCodecCall EXCEPT !.op = "ParseVMXML",
                                    !.vmXML = vmXML,
                                    !.parsed = ParseVMXML(vmXML)]
    /\ UNCHANGED <<runningVMs, tmpDir, call, agg, favoritesDB, server>>

(***************************************************************************)
(* Specification: requests to the attach, detach and list handlers, one    *)
(* at a time, while VMs start and stop                                     *)
(***************************************************************************)
Init ==
    /\ runningVMs = {}
    /\ tmpDir = <<>>
    /\ call = [c \in Calls |-> IdleCall]
    /\ agg = IdleAgg
    /\ favoritesDB = EmptyDB
    /\ server = BootServer
    /\ codec = NoCodecCall

Ops == {"attach", "detach", "list"}

Next ==
    \/ \E vm \in VMUniverse : VMStart(vm)
    \/ \E vm \in VMUniverse : VMStop(vm)
    \/ \E o \in Ops, vm \in VMNameInputs : BeginCall(1, o, vm)
    \/ ValidateVM(1)
    \/ \E body \in BodyInputs : EncodeDescriptor(1, body)
    \/ PersistDescriptor(1)
    \/ InvokeVirsh(1)
    \/ CompleteVirsh(1)
    \/ DumpAttached(1)
    \/ Return(1)

Spec == Init /\ [][Next]_vars

(***************************************************************************)
(* Specification: requests to GetDevicesState, one at a time, while VMs    *)
(* start and stop and favorites are added and removed                      *)
(***************************************************************************)
NextAgg ==
    \/ \E vm \in VMUniverse : VMStart(vm)
    \/ \E vm \in VMUniverse : VMStop(vm)
    \/ \E body \in FavoriteInputs, now \in InsertTimes(favoritesDB) :
         AddFavorite(body, now, TRUE)
    \/ \E body \in FavoriteInputs : RemoveFavorite(body, TRUE)
    \/ \E vm \in VMNameInputs : BeginState(vm)
    \/ ValidateState
    \/ LaunchUsb
    \/ LaunchAttached
    \/ LaunchFavorites
    \/ FetchUsb
    \/ FetchAttached
    \/ FetchFavorites
    \/ Compose
    \/ ReturnState

SpecAgg == Init /\ [][NextAgg]_vars

\* request bodies of the concurrent calls: attach calls name one device,
\* detach calls another
ConcBody(o) ==
    IF o = "attach"
    THEN [parseOk |-> TRUE, VendorID |-> <<"0", "4", "6", "d">>,
          ProductID |-> <<"c", "5", "4", "8">>]
    ELSE [parseOk |-> TRUE, VendorID |-> <<"0", "x", "1", "D", "6", "B">>,
          ProductID |-> <<"0", "0", "0", "2">>]

\* attach and detach calls served concurrently, one goroutine per request
NextConc ==
    \/ VMStart(VM1)
    \/ \E c \in Calls, o \in {"attach", "detach"} : BeginCall(c, o, VM1)
    \/ \E c \in Calls : ValidateVM(c)
    \/ \E c \in Calls : EncodeDescriptor(c, ConcBody(call[c].op))
    \/ \E c \in Calls : PersistDescriptor(c)
    \/ \E c \in Calls : InvokeVirsh(c)
    \/ \E c \in Calls : CompleteVirsh(c)
    \/ \E c \in Calls : Return(c)

SpecConc == Init /\ [][NextConc]_vars

\* requests for the devices of a VM while VMs start and stop
NextLive ==
    \/ \E vm \in VMUniverse : VMStart(vm)
    \/ \E vm \in VMUniverse : VMStop(vm)
    \/ \E c \in Calls : BeginCall(c, "list", VM1)
    \/ \E c \in Calls : ValidateVM(c)
    \/ \E c \in Calls : DumpAttached(c)
    \/ \E c \in Calls : Return(c)

SpecLive == Init /\ [][NextLive]_vars

(***************************************************************************)
(* Specification: the process starts, resolves its access policy, and      *)
(* serves requests through the filter chain                                *)
(***************************************************************************)
\* what the requests served through the chain carry: the VM an attach
\* request names, the vmName query of a state request, the bodies of attach
\* and add-favorite requests
NetAttachVMInputs == {VM1, <<"v", "m", ";">>}

NetStateVMInputs == {VM1}

NetBodyInputs ==
    {ConcBody("attach"), [parseOk |-> FALSE, VendorID |-> <<>>, ProductID |-> <<>>]}

NetFavoriteInputs == {b \in FavoriteInputs : b.Description # "hub"}

NextNet ==
    \/ \E c \in 1..Len(AllowedNetworksInputs), h \in 1..Len(HostInputs) :
          StartServer(c, h)
    \/ \E a \in ClientAddrInputs, r \in Routes : Arrive(a, r)
    \/ RunLogger
    \/ RunIPFilter
    \/ \E limitReached \in BOOLEAN : RunLimiter(limitReached)
    \/ \E renderOk \in BOOLEAN : RunGetIndex(renderOk)
    \/ \E out \in LsusbOutcomes : RunListUSBDevices(out)
    \/ \E body \in NetFavoriteInputs, now \in InsertTimes(favoritesDB),
          dbOk \in BOOLEAN : RunAddFavorite(body, now, dbOk)
    \/ \E vm \in NetAttachVMInputs : RunAttachDevice(vm)
    \/ ValidateVM(1)
    \/ \E body \in NetBodyInputs : EncodeDescriptor(1, body)
    \/ PersistDescriptor(1)
    \/ InvokeVirsh(1)
    \/ CompleteVirsh(1)
    \/ AnswerAttachDevice
    \/ \E vm \in NetStateVMInputs : RunGetDevicesState(vm)
    \/ ValidateState
    \/ LaunchUsb
    \/ LaunchAttached
    \/ LaunchFavorites
    \/ FetchUsb
    \/ FetchAttached
    \/ FetchFavorites
    \/ Compose
    \/ AnswerGetDevicesState
    \/ VMStart(VM1)
    \/ FinishRequest

SpecNet == Init /\ [][NextNet]_vars

(***************************************************************************)
(* Specification: calls of GenerateUSBXML and ParseVMXML                   *)
(***************************************************************************)
NextCodec ==
    \/ \E v \in VendorInputs, p \in ProductInputs : CallGenerateUSBXML(v, p)
    \/ CallParseGenerated
    \/ \E vmXML \in DumpInputs : CallParseVMXML(vmXML)

SpecCodec == Init /\ [][NextCodec]_vars

(***************************************************************************)
(* Specification: add-favorite and remove-favorite requests                *)
(***************************************************************************)
NextFav ==
    \/ \E body \in FavoriteRequestInputs, now \in InsertTimes(favoritesDB),
          dbOk \in BOOLEAN : AddFavorite(body, now, dbOk)
    \/ \E body \in FavoriteRequestInputs, dbOk \in BOOLEAN :
          RemoveFavorite(body, dbOk)

SpecFav == Init /\ [][NextFav]_vars


(***************************************************************************)
(* Properties of the state aggregator (checked under SpecAgg)              *)
(***************************************************************************)
\* the aggregator has answered a request whose fetches were launched
Answered == agg.pc = "done" /\ agg.task["usb"] # "none"

HostFailed == agg.task["usb"] = "done" /\ agg.fetched["usb"].err # ""

HostSucceeded == agg.task["usb"] = "done" /\ agg.fetched["usb"].err = ""

\* source t was fetched and the fetch failed
Failed(t) == agg.task[t] = "done" /\ agg.fetched[t].err # ""

\* source t was fetched and the fetch succeeded
Succeeded(t) == agg.task[t] = "done" /\ agg.fetched[t].err = ""

\* C1: whenever the host-device fetch fails, the call fails and the response
\* carries no snapshot and none of the three lists, whatever the other two
\* fetches did.
C1_HostFailureIsFatal ==
    (Answered /\ HostFailed) =>
        /\ agg.resp.status = 500
        /\ ~agg.resp.hasSnapshot
        /\ agg.resp.devices = NilSlice
        /\ agg.resp.attachedDevices = NilSlice
        /\ agg.resp.favorites = NilSlice

\* C1 witness: the host fetch failed while the attached-device fetch returned
\* devices and the favorites fetch succeeded, and the call was answered.
C1_Witness ==
    /\ Answered /\ HostFailed
    /\ Succeeded("attached") /\ agg.fetched["attached"].value.elems # <<>>
    /\ Succeeded("favorites")

\* the favorites of a response are the fetched records, field by field
SameFavorites(shown, fetched) ==
    /\ Len(shown) = Len(fetched)
    /\ \A i \in 1..Len(shown) :
         /\ shown[i].VendorID = fetched[i].VendorID
         /\ shown[i].ProductID = fetched[i].ProductID
         /\ shown[i].Description = fetched[i].Description

\* C2: when the host-device fetch succeeds the call succeeds; a failed
\* secondary source is an empty list in the snapshot, a successful source
\* shows exactly the records it fetched.
C2_SecondaryFailuresDegrade ==
    (Answered /\ HostSucceeded) =>
        /\ agg.resp.status = 200
        /\ agg.resp.hasSnapshot
        /\ agg.resp.devices.elems = agg.fetched["usb"].value.elems
        /\ Failed("attached") => agg.resp.attachedDevices.elems = <<>>
        /\ Succeeded("attached") =>
             agg.resp.attachedDevices.elems = agg.fetched["attached"].value.elems
        /\ Failed("favorites") => agg.resp.favorites.elems = <<>>
        /\ Succeeded("favorites") =>
             SameFavorites(agg.resp.favorites.elems,
                           agg.fetched["favorites"].value.elems)

\* C2 witness: host devices were listed, the attached-device fetch failed and
\* the favorites query failed after delivering a row; the call succeeded.
C2_Witness ==
    /\ Answered /\ HostSucceeded
    /\ agg.fetched["usb"].value.elems # <<>>
    /\ Failed("attached")
    /\ Failed("favorites") /\ agg.fetched["favorites"].value.elems # <<>>
    /\ agg.resp.status = 200

\* C3: every snapshot returned has its three lists present and non-null.
C3_NoNullLists ==
    agg.resp.hasSnapshot =>
        /\ ~agg.resp.devices.nil
        /\ ~agg.resp.attachedDevices.nil
        /\ ~agg.resp.favorites.nil

\* C3 witness: a snapshot for which the attached-device fetch was not
\* launched, the favorites fetch failed and lsusb listed no device.
C3_Witness ==
    /\ agg.resp.hasSnapshot
    /\ agg.task["attached"] = "none"
    /\ Failed("favorites")
    /\ agg.fetched["usb"].value.nil

\* C4: a response to a request whose fetches were launched is composed only
\* after every launched sub-task has completed.
C4_JoinWaitsForAll ==
    (agg.resp.status # 0 /\ agg.task["usb"] # "none") =>
        \A t \in Sources : agg.task[t] # "running"

\* C4 witness: the host-device fetch has failed, another fetch is still
\* running, and the handler is still waiting without a response.
C4_Witness ==
    /\ agg.pc = "wait"
    /\ HostFailed
    /\ \E t \in Sources : agg.task[t] = "running"
    /\ agg.resp.status = 0

\* the value-or-error slot of a source
Slot(t) ==
    IF t = "usb" THEN [err |-> agg.usbErr, value |-> agg.usbDevices]
    ELSE IF t = "attached"
    THEN [err |-> agg.attachedErr, value |-> agg.attachedDevices]
    ELSE [err |-> agg.favoritesErr, value |-> agg.favorites]

\* C5: each source's slot holds what its own sub-task fetched and nothing
\* else, and the outcome of the call is decided by the host-device result
\* alone, in whatever order the sub-tasks complete.
C5_OrderIndependent ==
    /\ \A t \in Sources :
         Slot(t) = IF agg.task[t] = "done" THEN agg.fetched[t] ELSE NoFetch
    /\ Answered =>
         /\ agg.resp.status = (IF agg.fetched["usb"].err # "" THEN 500 ELSE 200)
         /\ agg.resp.details = agg.fetched["usb"].err

\* C5 witness: all three fetches failed with different errors and the call
\* reports the host-device failure.
C5_Witness ==
    /\ Answered
    /\ Failed("usb") /\ Failed("attached") /\ Failed("favorites")
    /\ agg.resp.details = "lsusb: exit status 1"

\* the running-VM listing of this call succeeded and names the VM
ListedRunning(vmName, listing) ==
    /\ ~listing.err
    /\ \E i \in 1..Len(listing.lines) :
          /\ TrimSpace(listing.lines[i]) # <<>>
          /\ TrimSpace(listing.lines[i]) = vmName

WellFormedVMName(vmName) ==
    /\ Len(vmName) \in 1..64
    /\ \A i \in 1..Len(vmName) : vmName[i] \in LetterSet \cup Digits \cup {"_", "-"}

Launched == {t \in Sources : agg.task[t] # "none"}

\* C6: the attached-device fetch is launched only for a VM identifier that
\* passed validation; without an identifier exactly the host-device and
\* favorites fetches are launched and attachedDevices is empty; with an
\* identifier that fails validation nothing is launched and the call is
\* rejected.
C6_AttachedFetchOnlyForValidVM ==
    /\ agg.task["attached"] # "none" =>
         /\ WellFormedVMName(agg.vmName)
         /\ ListedRunning(agg.vmName, agg.listing)
    /\ (agg.pc \in {"wait", "done"} /\ agg.vmName = <<>>) =>
         /\ Launched = {"usb", "favorites"}
         /\ agg.resp.hasSnapshot => agg.resp.attachedDevices = EmptySlice
    /\ (agg.pc \notin {"idle", "validate"} /\ agg.vmName # <<>>
          /\ ~(WellFormedVMName(agg.vmName) /\ ListedRunning(agg.vmName, agg.listing))) =>
         /\ agg.pc = "done"
         /\ agg.resp.status = 400
         /\ Launched = {}

\* C6 witness: a call naming a running VM was answered with the devices
\* attached to it.
C6_Witness ==
    /\ Answered
    /\ agg.vmName # <<>>
    /\ agg.task["attached"] = "done"
    /\ agg.resp.hasSnapshot /\ agg.resp.attachedDevices.elems # <<>>

(***************************************************************************)
(* Properties of the attach/detach orchestrator (checked under Spec)       *)
(***************************************************************************)
IsDeviceCall(c) == call[c].op \in {"attach", "detach"}

\* the attach-device/detach-device processes call c started
DeviceProcs(c) ==
    {i \in 1..Len(call[c].spawned) : call[c].spawned[i].cmd \in {"attach", "detach"}}

\* C7: a call whose VM identifier is well-formed but absent from the running
\* set its own lookup returned fails with VMNotRunning and never starts the
\* attach/detach command.
C7_NotRunningRejected ==
    \A c \in Calls :
        (/\ IsDeviceCall(c)
         /\ call[c].pc \notin {"idle", "validate"}
         /\ WellFormedVMName(call[c].vmName)
         /\ ~call[c].listing.err
         /\ ~ListedRunning(call[c].vmName, call[c].listing)) =>
            /\ call[c].pc = "done"
            /\ call[c].resp.error = ErrVMNotRunning
            /\ call[c].resp.status # 200
            /\ DeviceProcs(c) = {}

\* C7 witness: an attach call for a well-formed VM name was rejected while the
\* listing it made named another VM.
C7_Witness ==
    \E c \in Calls :
        /\ call[c].op = "attach" /\ call[c].pc = "done"
        /\ call[c].vmName = VM1
        /\ ListedRunning(VM2, call[c].listing)
        /\ ~ListedRunning(VM1, call[c].listing)
        /\ call[c].resp.error = ErrVMNotRunning

\* exactly four hexadecimal digits
FourHexDigits(id) ==
    /\ Len(id) = 4
    /\ \A i \in 1..Len(id) : id[i] \in Digits \cup {"a", "b", "c", "d", "e", "f"}

\* an identity of a request body is malformed: after the handler's
\* normalisation (trim, lower-case, strip a 0x prefix) the vendor or the
\* product is not exactly four hexadecimal digits
MalformedIdentity(req) ==
    \/ ~FourHexDigits(NormalizeRequestID(req.VendorID))
    \/ ~FourHexDigits(NormalizeRequestID(req.ProductID))

\* the two responses that report an invalid identity
InvalidIdentityResponse(r) ==
    r.error \in {"Failed to generate device XML", "vendorId and productId are required"}

\* call c read a well-formed body naming a malformed identity
ReadMalformedIdentity(c) ==
    /\ IsDeviceCall(c)
    /\ call[c].bodyRead /\ call[c].req.parseOk
    /\ MalformedIdentity(call[c].req)

\* C8: a call with a malformed identity fails with InvalidIdentity, creates
\* no temporary descriptor file and starts no attach/detach command.
C8_MalformedIdentityRejected ==
    \A c \in Calls :
        ReadMalformedIdentity(c) =>
            /\ call[c].pc = "done"
            /\ InvalidIdentityResponse(call[c].resp)
            /\ call[c].created = {}
            /\ DeviceProcs(c) = {}

\* C9: a call with an invalid identity format fails with InvalidIdentity
\* before any external process, the running-VM listing included, has been
\* started in that call.
C9_InvalidIdentityBeforeAnyProcess ==
    \A c \in Calls :
        ReadMalformedIdentity(c) =>
            /\ call[c].pc = "done"
            /\ InvalidIdentityResponse(call[c].resp)
            /\ call[c].spawned = <<>>

ValidationErrorResponse(r) ==
    \/ InvalidIdentityResponse(r)
    \/ r.error \in {ErrVMNameEmpty, ErrVMNameInvalidFormat, ErrVMNotRunning}

ClientFault(status) == status >= 400 /\ status < 500

\* C10: InvalidIdentity, InvalidVMName and VMNotRunning are answered with a
\* client-fault (4xx) status by attach, detach, the attached-device listing
\* and the state aggregator.
C10_ValidationErrorsAreClientFaults ==
    /\ \A c \in Calls :
         (call[c].pc = "done" /\ ValidationErrorResponse(call[c].resp)) =>
             ClientFault(call[c].resp.status)
    /\ (agg.pc = "done"
          /\ agg.resp.error \in {ErrVMNameEmpty, ErrVMNameInvalidFormat, ErrVMNotRunning}) =>
             ClientFault(agg.resp.status)

\* C11: once an attach/detach call has returned, on whatever exit path, no
\* temporary descriptor file it created exists any more, and between calls
\* the temporary directory holds no descriptor.
C11_TempFileRemovedOnReturn ==
    /\ \A c \in Calls :
         call[c].pc = "done" => call[c].created \cap DOMAIN tmpDir = {}
    /\ (\A c \in Calls : call[c].pc \in {"idle", "done"}) => DOMAIN tmpDir = {}

\* C11 witness: a call that created its descriptor file failed because the
\* file could not be closed, and has returned.
C11_Witness ==
    \E c \in Calls :
        /\ IsDeviceCall(c) /\ call[c].pc = "done"
        /\ call[c].created # {}
        /\ call[c].resp.error = "Failed to create temporary XML file"
        /\ call[c].resp.details = "close"

\* call c holds a temporary descriptor file
HoldsFile(c) == IsDeviceCall(c) /\ call[c].pc \in {"invoke", "wait"}

\* C12: in every interleaving of concurrent attach/detach calls, two calls
\* in flight never hold the same temporary file, the file a call holds exists
\* with the descriptor that call wrote until the call itself removes it, and
\* the command of a call read the descriptor of that call.
C12_TempFilesNotShared ==
    /\ \A c, d \in Calls :
         (c # d /\ HoldsFile(c) /\ HoldsFile(d)) => call[c].tmpFile # call[d].tmpFile
    /\ \A c \in Calls :
         HoldsFile(c) =>
            /\ call[c].tmpFile \in DOMAIN tmpDir
            /\ tmpDir[call[c].tmpFile] = call[c].xml
    /\ \A c \in Calls : \A i \in DeviceProcs(c) :
            /\ call[c].spawned[i].file = call[c].tmpFile
            /\ call[c].spawned[i].content = call[c].xml

\* C12 witness: two calls wait for their commands at the same time, each
\* with its own descriptor, for different devices.
C12_Witness ==
    \E c, d \in Calls :
        /\ c # d
        /\ call[c].pc = "wait" /\ call[d].pc = "wait"
        /\ call[c].xml # call[d].xml

\* call c has returned after running its attach/detach command
CommandRan(c) == IsDeviceCall(c) /\ call[c].pc = "done" /\ DeviceProcs(c) # {}

\* C13: when the attach/detach command exits non-zero the call reports
\* OperationFailed with the command's combined output unchanged; when it
\* exits zero the call reports success.
C13_OutcomeFollowsExitStatus ==
    \A c \in Calls :
        CommandRan(c) =>
            IF call[c].cmdOut.err
            THEN /\ call[c].resp.error = OperationFailedError(call[c].op)
                 /\ call[c].resp.details = call[c].cmdOut.output
                 /\ ~call[c].resp.success
                 /\ call[c].resp.status # 200
            ELSE /\ call[c].resp.success
                 /\ call[c].resp.status = 200
                 /\ call[c].resp.error = ""

\* C13 witness: a detach command exited non-zero after printing a message,
\* and the call reported the failure with that message.
C13_Witness ==
    \E c \in Calls :
        /\ CommandRan(c) /\ call[c].op = "detach"
        /\ call[c].cmdOut.err
        /\ call[c].cmdOut.output = "error: Requested operation is not valid\n"
        /\ call[c].resp.details = "error: Requested operation is not valid\n"

\* the moves between the steps of an attach/detach call: Validating
\* ("validate"), Encoding ("parse"), Persisting ("persist"), Invoking
\* ("invoke", "wait"), Completed or Failed ("done")
StepOrder ==
    {<<"idle", "validate">>, <<"validate", "parse">>, <<"parse", "persist">>,
     <<"persist", "invoke">>, <<"invoke", "wait">>, <<"wait", "done">>,
     <<"validate", "done">>, <<"parse", "done">>, <<"persist", "done">>,
     <<"done", "idle">>}

\* what holds of call c whenever its attach/detach command has been started
InvokedInOrder(c) ==
    DeviceProcs(c) # {} =>
        /\ Cardinality(DeviceProcs(c)) = 1
        /\ ListedRunning(call[c].vmName, call[c].listing)
        /\ call[c].xml # NoHostdev
        /\ call[c].xml = GenerateUSBXML(call[c].vendorID, call[c].productID).xml
        /\ call[c].created = {call[c].tmpFile}
        /\ \A i \in DeviceProcs(c) :
              /\ call[c].spawned[i].file = call[c].tmpFile
              /\ call[c].spawned[i].content = call[c].xml
              /\ call[c].spawned[i].cmd = call[c].op

\* C14: an attach/detach call moves only along Validating, Encoding,
\* Persisting, Invoking, Completed, with Failed reachable from each step; its
\* command is started at most once and only after validation succeeded, the
\* descriptor was encoded and the temporary file was written and closed; a
\* call reports success only after its command ran.
C14_StepsInOrder ==
    /\ [](\A c \in Calls :
            /\ InvokedInOrder(c)
            /\ call[c].pc \in {"invoke", "wait"} => call[c].created # {}
            /\ call[c].resp.success => DeviceProcs(c) # {})
    /\ [][\A c \in Calls :
            (IsDeviceCall(c) \/ call[c].pc = "idle") /\ call'[c].op # "list" =>
                \/ call'[c].pc = call[c].pc
                \/ <<call[c].pc, call'[c].pc>> \in StepOrder]_vars

\* C14 witness: an attach call went through every step and completed.
C14_Witness ==
    \E c \in Calls :
        /\ call[c].op = "attach" /\ call[c].pc = "done"
        /\ call[c].resp.success
        /\ Cardinality(DeviceProcs(c)) = 1
        /\ call[c].created # {}

\* the VM validation of call c has been decided
Validated(c) == call[c].op # "" /\ call[c].pc \notin {"idle", "validate"}

\* call c was rejected by the VM validation
RejectedAs(c, errors) == call[c].pc = "done" /\ call[c].resp.error \in errors

\* C15: an identifier that is empty, longer than 64 characters or holds a
\* character outside [A-Za-z0-9_-] is rejected as InvalidVMName without any
\* running-VM lookup; a well-formed identifier the lookup did not list is
\* rejected as VMNotRunning; validation passes only for a well-formed
\* identifier the lookup listed.
C15_InvalidNameVersusNotRunning ==
    \A c \in Calls :
        Validated(c) =>
            /\ ~WellFormedVMName(call[c].vmName) =>
                  /\ RejectedAs(c, {ErrVMNameEmpty, ErrVMNameInvalidFormat})
                  /\ call[c].resp.error = ErrVMNameEmpty <=> call[c].vmName = <<>>
                  /\ call[c].spawned = <<>>
                  /\ call[c].listing = NoListing
            /\ (/\ WellFormedVMName(call[c].vmName)
                /\ ~call[c].listing.err
                /\ ~ListedRunning(call[c].vmName, call[c].listing)) =>
                  RejectedAs(c, {ErrVMNotRunning})
            /\ ~RejectedAs(c, {ErrVMNameEmpty, ErrVMNameInvalidFormat, ErrVMNotRunning}) =>
                  /\ WellFormedVMName(call[c].vmName)
                  /\ ListedRunning(call[c].vmName, call[c].listing)

\* C15 witness: a 65-character name of valid characters was rejected as
\* InvalidVMName with no lookup made.
C15_Witness ==
    \E c \in Calls :
        /\ Validated(c)
        /\ Len(call[c].vmName) = MaxVMNameLen + 1
        /\ vmNamePattern(call[c].vmName)
        /\ call[c].resp.error = ErrVMNameInvalidFormat
        /\ call[c].spawned = <<>>

\* the running-VM listings call c has made
ListProcs(c) == {i \in 1..Len(call[c].spawned) : call[c].spawned[i].cmd = "list"}

\* the VM names a listing printed
ListedNames(listing) ==
    {TrimSpace(listing.lines[i]) : i \in 1..Len(listing.lines)} \ {<<>>}

\* C16: every call makes its own running-VM lookup: a call that validated a
\* well-formed identifier ran the listing exactly once, accepted the
\* identifier exactly when that listing named it, and a listing that
\* succeeded shows the VMs running when that call made it, whatever earlier
\* calls saw.
C16_LiveLookup ==
    /\ [](\A c \in Calls :
            (Validated(c) /\ WellFormedVMName(call[c].vmName)) =>
                /\ Cardinality(ListProcs(c)) = 1
                /\ RejectedAs(c, {ErrVMNotRunning})
                      <=> ~ListedRunning(call[c].vmName, call[c].listing))
    /\ [][\A c \in Calls :
            (/\ call[c].pc = "validate" /\ call'[c].pc # "validate"
             /\ WellFormedVMName(call[c].vmName)
             /\ ~call'[c].listing.err) =>
                ListedNames(call'[c].listing) = runningVMs]_vars

\* C16 witness: a VM was running when one call looked it up and was no
\* longer running when another call looked it up: the first was accepted
\* and answered, the other rejected.
C16_Witness ==
    \E c, d \in Calls :
        /\ c # d
        /\ call[c].vmName = VM1 /\ call[d].vmName = VM1
        /\ call[c].pc = "done" /\ call[c].resp.status = 200
        /\ ListedRunning(VM1, call[c].listing)
        /\ RejectedAs(d, {ErrVMNotRunning})
        /\ ~call[d].listing.err
        /\ VM1 \notin ListedNames(call[d].listing)


(***************************************************************************)
(* Access filter and network policy                                        *)
(***************************************************************************)
\* ip lies in the block base/ones: they agree on the leading ones bits
InBlock(ip, base, ones) ==
    \A k \in 1..4 :
        LET covered == IF ones >= 8 * k THEN 8
                       ELSE IF ones <= 8 * (k - 1) THEN 0
                       ELSE ones - 8 * (k - 1)
        IN  ip[k] \div Pow2(8 - covered) = base[k] \div Pow2(8 - covered)

\* the blocks of the policy the server started with: those the configuration
\* writes, or those auto-detection returned
PolicyBlocks ==
    IF server.autoRan
    THEN {[base |-> server.allowed[i].IP, ones |-> MaskSize(server.allowed[i].Mask)] :
            i \in 1..Len(server.allowed)}
    ELSE LET entries == AllowedNetworksInputs[server.cfg].entries
         IN  {[base |-> entries[i].base, ones |-> entries[i].ones] :
                i \in 1..Len(entries)}

\* the request's client address is one the policy lets in
ShouldAllow(req) ==
    /\ req.clientIP.ip # NoIP
    /\ \E b \in PolicyBlocks : InBlock(req.clientIP.ip, b.base, b.ones)

FilterRan(req) == \E i \in 1..Len(req.ran) : req.ran[i] = "ipFilter"

FilterRejected(req) ==
    /\ req.pc = "done"
    /\ req.ran # <<>>
    /\ req.ran[Len(req.ran)] = "ipFilter"

\* C17: for every request the access filter runs before the rate limiter and
\* before any route handler, an answered request has been through it, and a
\* request whose client address is unparsable or outside the allowed set is
\* answered 403 by the filter with no route handler (enumerator,
\* orchestrator, aggregator, favorites store) having run: no attach call
\* and no state aggregation is in progress for it.
C17_FilterBeforeHandlers ==
    LET req == server.req
    IN  /\ \A i \in 1..Len(req.ran) :
              req.ran[i] \in Routes \cup {"limiter"}
                  => \E j \in 1..(i - 1) : req.ran[j] = "ipFilter"
        /\ req.pc = "done" => FilterRan(req)
        /\ Cardinality({i \in 1..Len(req.ran) : req.ran[i] = "ipFilter"}) <= 1
        /\ (req.pc # "idle" /\ ~ShouldAllow(req)) =>
              /\ \A i \in 1..Len(req.ran) : req.ran[i] \notin Routes \cup {"limiter"}
              /\ FilterRan(req) => (req.pc = "done" /\ req.status = 403)
              /\ call[1] = IdleCall
              /\ agg = IdleAgg

\* an attach request from an address outside the policy was turned away by
\* the filter
C17_Witness ==
    /\ server.cfg = 1
    /\ server.req.pc = "done"
    /\ server.req.route = "AttachDevice"
    /\ server.req.clientIP.ip = <<8, 8, 8, 8>>
    /\ server.req.ran = <<"logger", "ipFilter">>
    /\ server.req.status = 403
    /\ server.req.error = "Access denied: your IP is not in the allowed networks"

\* C18: the filter lets a request through exactly when its client address
\* parses, bare or as ip:port, and the address lies in at least one block of
\* the allowed set; an unparsable address is rejected as invalid, an address
\* in no block as not allowed, and an empty set rejects every address.
C18_AllowedExactlyWhenInSomeBlock ==
    LET req == server.req
    IN  FilterRan(req) =>
          /\ ~FilterRejected(req) <=> ShouldAllow(req)
          /\ (FilterRejected(req) /\ req.clientIP.ip = NoIP) =>
                req.error = "Access denied: invalid client address"
          /\ (FilterRejected(req) /\ req.clientIP.ip # NoIP) =>
                req.error = "Access denied: your IP is not in the allowed networks"
          /\ server.allowed = <<>> => FilterRejected(req)

\* an address written as ip:port that lies in the second block of the set
\* was let through to the handler
C18_Witness ==
    /\ server.cfg = 1
    /\ server.req.clientIP.ip = <<192, 168, 1, 50>>
    /\ server.req.clientIP.text # IPString(server.req.clientIP.ip)
    /\ server.req.pc = "done"
    /\ server.req.status = 200
    /\ server.req.ran = <<"logger", "ipFilter", "GetIndex">>

\* the configuration the server started with
StartedWith == AllowedNetworksInputs[server.cfg]

\* ALLOWED_NETWORKS was set
Explicit == server.cfg # 0 /\ ConfigText(StartedWith) # <<>>

\* C19: with ALLOWED_NETWORKS set, auto-detection is not run; when every
\* configured entry is a CIDR the server serves with exactly the configured
\* blocks, in the configured order; when some entry is not a CIDR the
\* resolution fails, the process ends and no request is ever taken.
C19_ExplicitConfiguration ==
    Explicit =>
        LET entries == StartedWith.entries
        IN  /\ ~server.autoRan
            /\ server.detected = <<>>
            /\ (\A i \in 1..Len(entries) : entries[i].valid) =>
                  /\ server.phase = "serving"
                  /\ server.allowed =
                        [i \in 1..Len(entries) |->
                            IPNet(entries[i].base, CIDRMask(entries[i].ones))]
            /\ (\E i \in 1..Len(entries) : ~entries[i].valid) =>
                  /\ server.phase = "fatal"
                  /\ server.allowed = <<>>
                  /\ server.req = NoRequest

\* a configuration whose second entry is no CIDR ended the process
C19_Witness ==
    /\ server.cfg = 4
    /\ ~StartedWith.entries[2].valid
    /\ StartedWith.entries[1].valid
    /\ server.phase = "fatal"
    /\ ~server.autoRan

\* the <ip> entries of the virtual networks whose dump the host gives
HostEntries(host) ==
    UNION {{host.netXML[n].ips[i] : i \in 1..Len(host.netXML[n].ips)} :
             n \in {m \in DOMAIN host.netXML :
                       ~host.netXML[m].err /\ host.netXML[m].wellformed}}

\* the entry has an IPv4 address
IPv4Entry(e) == ParseIP(e.Address) # NoIP

\* the bytes a contiguous netmask is made of, by number of one bits
MaskBytes == <<0, 128, 192, 224, 240, 248, 252, 254, 255>>

\* m is a netmask: one bits, then zero bits
IsNetmask(m) ==
    /\ Len(m) = 4
    /\ \A k \in 1..4 : \E i \in 1..9 : MaskBytes[i] = m[k]
    /\ \A k \in 1..3 : m[k] # 255 => m[k + 1] = 0

\* the one bits of byte b of a netmask
ByteOnes(b) == (CHOOSE i \in 1..9 : MaskBytes[i] = b) - 1

\* the one bits of a netmask
NetmaskOnes(m) == ByteOnes(m[1]) + ByteOnes(m[2]) + ByteOnes(m[3]) + ByteOnes(m[4])

\* the entry's prefix attribute, if given, writes a prefix length on one
\* line, white space around it allowed, and its
\* netmask attribute, if that is what the entry goes by, writes a netmask
WellFormedFields(e) ==
    /\ e.Prefix # <<>> =>
          /\ \A i \in 1..Len(e.Prefix) : e.Prefix[i] # "\n"
          /\ TrimSpace(e.Prefix) # <<>>
          /\ AllDigits(TrimSpace(e.Prefix))
          /\ Len(StripZeros(TrimSpace(e.Prefix))) <= 2
          /\ DecimalValue(TrimSpace(e.Prefix)) <= 32
    /\ (e.Prefix = <<>> /\ e.Netmask # <<>>) => IsNetmask(ParseIP(e.Netmask))

\* the prefix length the entry declares
ExpectedOnes(e) ==
    IF e.Prefix # <<>> THEN DecimalValue(TrimSpace(e.Prefix))
    ELSE IF e.Netmask # <<>> THEN NetmaskOnes(ParseIP(e.Netmask))
    ELSE 24

\* the entry's address with the bits after the prefix cleared
ExpectedBase(e) ==
    [k \in 1..4 |->
        LET covered == IF ExpectedOnes(e) >= 8 * k THEN 8
                       ELSE IF ExpectedOnes(e) <= 8 * (k - 1) THEN 0
                       ELSE ExpectedOnes(e) - 8 * (k - 1)
            b == ParseIP(e.Address)[k]
        IN  b - (b % Pow2(8 - covered))]

\* every IPv4 entry of the host's virtual networks is well formed
WellFormedHost(host) ==
    \A e \in HostEntries(host) : IPv4Entry(e) => WellFormedFields(e)

\* the subnets the host of the auto-detection has: loopback, those of its
\* default-route interfaces and those of its active virtual networks
HostSubnets ==
    {LoopbackCIDR} \cup HostInputs[server.host].ifaceSubnets
                  \cup HostInputs[server.host].netSubnets

\* C20: with ALLOWED_NETWORKS unset, auto-detection runs; its list starts
\* with 127.0.0.0/8 and names no subnet twice; on a host whose virtual
\* networks are well formed it succeeds and names exactly loopback, the IPv4
\* subnet of each default-route interface that has one and the subnets of
\* the active virtual networks; a host with neither gives loopback alone;
\* the filter is built from that list.
C20_AutoDetection ==
    (server.cfg # 0 /\ ~Explicit) =>
        /\ server.autoRan
        /\ server.detected # <<>>
        /\ server.detected[1] = LoopbackCIDR
        /\ \A i, j \in 1..Len(server.detected) :
              server.detected[i] = server.detected[j] => i = j
        /\ WellFormedHost(HostInputs[server.host]) =>
              /\ server.phase = "serving"
              /\ {server.detected[i] : i \in 1..Len(server.detected)} = HostSubnets
              /\ [i \in 1..Len(server.allowed) |-> IPNetString(server.allowed[i])]
                    = server.detected

\* a host with an interface without IPv4 address, a subnet found twice and
\* a failing virtual network resolved two subnets besides loopback
C20_Witness ==
    /\ server.autoRan
    /\ server.host = 3
    /\ \E n \in DOMAIN HostInputs[3].ifaces :
          \A i \in 1..Len(HostInputs[3].ifaces[n].addrs) :
              HostInputs[3].ifaces[n].addrs[i].ip = NoIP
    /\ HostInputs[3].ifaceSubnets \cap HostInputs[3].netSubnets # {}
    /\ Len(server.detected) = 3
    /\ server.phase = "serving"

\* C21: each well-formed IPv4 entry of an active virtual network yields one
\* subnet: its prefix length is the prefix attribute if there is one, else
\* the one bits of the netmask attribute if there is one, else 24; its
\* address is the entry's address with the bits after the prefix cleared;
\* the subnet is in the auto-detected list.
C21_SubnetOfNetworkEntry ==
    server.autoRan =>
        \A e \in HostEntries(HostInputs[server.host]) :
            (IPv4Entry(e) /\ WellFormedFields(e)) =>
                LET derived == NetworkSubnets(<<>>, <<e>>)
                IN  /\ Len(derived) = 1
                    /\ derived[1] = IPString(ExpectedBase(e)) \o <<"/">>
                                        \o Itoa(ExpectedOnes(e))
                    /\ \E i \in 1..Len(server.detected) :
                          server.detected[i] = derived[1]

\* a host with an entry that gives prefix 16 and netmask 255.255.255.0, an
\* entry with a /25 netmask and, on another host, one with neither
C21_Witness ==
    /\ server.autoRan
    /\ server.host = 4
    /\ \E e \in HostEntries(HostInputs[4]) :
          /\ e.Prefix # <<>> /\ e.Netmask # <<>>
          /\ ExpectedOnes(e) = 16
          /\ NetmaskOnes(ParseIP(e.Netmask)) = 24
    /\ \E e \in HostEntries(HostInputs[4]) :
          e.Prefix = <<>> /\ e.Netmask # <<>> /\ ExpectedOnes(e) = 25
    /\ \E e \in HostEntries(HostInputs[3]) :
          IPv4Entry(e) /\ e.Prefix = <<>> /\ e.Netmask = <<>>
    /\ Len(server.detected) = 4

\* C29: every subnet auto-detection derives from an IPv4 entry of a virtual
\* network parses as a CIDR with a prefix length from 1 to 32, whatever the
\* entry's prefix and netmask attributes say, and the policy resolution that
\* follows does not fail.
C29_NetworkSubnetsAreUsableBlocks ==
    server.autoRan =>
        /\ \A e \in HostEntries(HostInputs[server.host]) :
              IPv4Entry(e) =>
                  LET derived == NetworkSubnets(<<>>, <<e>>)
                  IN  \A i \in 1..Len(derived) :
                        /\ ParseCIDR(derived[i]).err = ""
                        /\ MaskSize(ParseCIDR(derived[i]).network.Mask) \in 1..32
        /\ server.phase # "fatal"


(***************************************************************************)
(* Descriptor codec                                                        *)
(***************************************************************************)
HexAnyCase == HexLowerChars \cup {"A", "B", "C", "D", "E", "F"}

\* what a text writes once white space around it and one 0x before it, in
\* either case, are taken off
IDBody(s) ==
    LET t == TrimSpace(s)
    IN  IF Len(t) >= 2 /\ t[1] = "0" /\ t[2] \in {"x", "X"}
        THEN SubSeq(t, 3, Len(t))
        ELSE t

\* the text writes a 4-hex-digit id
WritesID(s) == Len(IDBody(s)) = 4 /\ \A i \in 1..4 : IDBody(s)[i] \in HexAnyCase

\* the id it writes, in canonical form
CanonicalID(s) == ToLower(IDBody(s))

\* s is in canonical form: four lower-case hex digits and nothing else
IsCanonical(s) ==
    /\ Len(s) = 4
    /\ \A i \in 1..4 : s[i] \in Digits \cup {"a", "b", "c", "d", "e", "f"}

\* C22: for vendor and product texts that each write a 4-hex-digit id, in
\* any case, with or without 0x, ParseVMXML of a dump whose only hostdev is
\* the descriptor GenerateUSBXML made of them yields exactly one device,
\* with the two ids in lower case without prefix.
C22_RoundTrip ==
    (/\ codec.op = "ParseGenerated"
     /\ WritesID(codec.vendorID)
     /\ WritesID(codec.productID)) =>
        /\ codec.parsed.err = ""
        /\ codec.parsed.devices.elems =
              <<USBDevice(CanonicalID(codec.vendorID), CanonicalID(codec.productID))>>

\* an upper-case vendor without prefix and an upper-case product with it
\* came back as 046d and c548
C22_Witness ==
    /\ codec.op = "ParseGenerated"
    /\ codec.vendorID = <<"0", "4", "6", "D">>
    /\ codec.productID = <<"0", "x", "C", "5", "4", "8">>
    /\ codec.generated.xml.vendor = <<"0", "x", "0", "4", "6", "d">>
    /\ codec.parsed.devices.elems = <<USBDevice(<<"0", "4", "6", "d">>, <<"c", "5", "4", "8">>)>>

\* C23: GenerateUSBXML returns the descriptor, with both ids in lower case
\* after 0x, when vendor and product each write a 4-hex-digit id; for every
\* other input (too long, too short, a character that is no hex digit,
\* empty) it returns the invalid-format error and no descriptor.
C23_EncodeValidation ==
    codec.op = "GenerateUSBXML" =>
        IF WritesID(codec.vendorID) /\ WritesID(codec.productID)
        THEN /\ codec.generated.err = ""
             /\ codec.generated.xml =
                   Hostdev("subsystem", "usb",
                           HexPrefix \o CanonicalID(codec.vendorID),
                           HexPrefix \o CanonicalID(codec.productID))
        ELSE /\ codec.generated.err = "invalid vendor or product ID format"
             /\ codec.generated.xml = NoHostdev

\* a vendor of five hex digits was refused
C23_Witness ==
    /\ codec.op = "GenerateUSBXML"
    /\ codec.vendorID = <<"1", "2", "3", "4", "5">>
    /\ WritesID(codec.productID)
    /\ codec.generated.err = "invalid vendor or product ID format"
    /\ codec.generated.xml = NoHostdev

\* the entry is a USB host device whose vendor and product write ids
Qualifying(hostdev) ==
    /\ hostdev.mode = "subsystem"
    /\ hostdev.type = "usb"
    /\ WritesID(hostdev.vendor)
    /\ WritesID(hostdev.product)

\* C24: ParseVMXML fails exactly when the document cannot be parsed;
\* otherwise it returns one device for each entry of mode subsystem and type
\* usb whose vendor and product both write 4-hex-digit ids, in document
\* order, and nothing for any other entry.
C24_DecodeSelectsUsbEntries ==
    codec.op = "ParseVMXML" =>
        LET expected == SelectSeq(codec.vmXML.hostdevs, Qualifying)
            devices == codec.parsed.devices.elems
        IN  /\ codec.parsed.err # "" <=> ~codec.vmXML.wellformed
            /\ Len(devices) = Len(expected)
            /\ \A i \in 1..Len(devices) :
                  /\ CanonicalID(devices[i].vendorId) = CanonicalID(expected[i].vendor)
                  /\ CanonicalID(devices[i].productId) = CanonicalID(expected[i].product)

\* C26: every device ParseVMXML returns has vendorId and productId in
\* canonical form: four lower-case hex digits, no prefix, no white space,
\* whatever the attribute values of the dump.
C26_DecodedIdentitiesCanonical ==
    codec.op = "ParseVMXML" =>
        \A i \in 1..Len(codec.parsed.devices.elems) :
            /\ IsCanonical(codec.parsed.devices.elems[i].vendorId)
            /\ IsCanonical(codec.parsed.devices.elems[i].productId)


(***************************************************************************)
(* Favorites store                                                         *)
(***************************************************************************)
\* the rows of a pair
RowsOf(v, p) ==
    {i \in 1..Len(favoritesDB.rows) : SameKey(favoritesDB.rows[i], v, p)}

\* C25: the table holds at most one row per (vendor_id, product_id) pair,
\* and holds a row exactly for the pairs added and not removed since, with
\* the description of the latest add of the pair.
C25_FavoriteUpsert ==
    /\ \A i, j \in 1..Len(favoritesDB.rows) :
          SameKey(favoritesDB.rows[i], favoritesDB.rows[j].vendor_id,
                  favoritesDB.rows[j].product_id) => i = j
    /\ {[VendorID |-> favoritesDB.rows[i].vendor_id,
         ProductID |-> favoritesDB.rows[i].product_id,
         Description |-> favoritesDB.rows[i].description] :
           i \in 1..Len(favoritesDB.rows)} = favoritesDB.given

\* 046d:c548 was added as A and then as B: one row, saying B, made by the
\* second insert
C25_Witness ==
    /\ favoritesDB.seq = 2
    /\ Len(favoritesDB.rows) = 1
    /\ favoritesDB.rows[1].id = 2
    /\ favoritesDB.rows[1].vendor_id = <<"0", "4", "6", "d">>
    /\ favoritesDB.rows[1].description = "B"
    /\ favoritesDB.given = {[VendorID |-> <<"0", "4", "6", "d">>, ProductID |-> <<"c", "5", "4", "8">>, Description |-> "B"]}

\* C27: no two rows of the table write the same identity: ids that differ
\* in letter case, 0x prefix or surrounding white space only are one
\* identity.
C27_OneRowPerIdentity ==
    \A i, j \in 1..Len(favoritesDB.rows) :
        (/\ WritesID(favoritesDB.rows[i].vendor_id)
         /\ WritesID(favoritesDB.rows[j].vendor_id)
         /\ CanonicalID(favoritesDB.rows[i].vendor_id)
               = CanonicalID(favoritesDB.rows[j].vendor_id)
         /\ CanonicalID(favoritesDB.rows[i].product_id)
               = CanonicalID(favoritesDB.rows[j].product_id)) => i = j

\* ---------------------------------------------------------------------
\* VM validation and the device command
\* ---------------------------------------------------------------------

\* C28: a validation whose running-VM listing failed is answered with an
\* error that is neither a VM-name error nor VMNotRunning, and VMNotRunning
\* is answered only when the listing succeeded and does not name the VM.
C28_ListingFailureReported ==
    \A c \in Calls :
        (Validated(c) /\ WellFormedVMName(call[c].vmName)) =>
            /\ call[c].listing.err =>
                  /\ call[c].pc = "done"
                  /\ call[c].resp.error \notin
                        {"", ErrVMNameEmpty, ErrVMNameInvalidFormat, ErrVMNotRunning}
            /\ RejectedAs(c, {ErrVMNotRunning}) =>
                  /\ ~call[c].listing.err
                  /\ call[c].vmName \notin ListedNames(call[c].listing)

\* C30: every attach or detach command a call started was started for a
\* VM that the call's own listing, made in its validation step, named as
\* running; nothing is looked up again between that step and the command.
C30_CommandForValidatedVM ==
    \A c \in Calls :
        \A i \in DeviceProcs(c) :
            /\ call[c].spawned[i].vm = call[c].vmName
            /\ Cardinality(ListProcs(c)) = 1
            /\ \A j \in ListProcs(c) : j < i
            /\ ListedRunning(call[c].vmName, call[c].listing)

\* C30 witness: the VM the validation listed as running had stopped when
\* the device command was started for it.
C30_Witness ==
    \E c \in Calls :
        \E i \in DeviceProcs(c) :
            /\ ListedRunning(call[c].vmName, call[c].listing)
            /\ ~call[c].spawned[i].vmRunning
            /\ call[c].vmName \notin runningVMs

\* C30 as stated: the VM of every device command started is running at the
\* moment the command is started.
C30_RunningAtInvocation ==
    \A c \in Calls :
        \A i \in DeviceProcs(c) : call[c].spawned[i].vmRunning

=============================================================================
